---- MODULE Spec2Model ----
(***************************************************************************)
(* A model of the geometry core of STL2TechnicalDrawing: the collision-    *)
(* aware dimension placer (core/dimension_system.py), the topology build   *)
(* and the orthographic / isometric projection (core/projection_engine.py, *)
(* core/geometry_analyzer.py), the feature-edge extraction of the loader   *)
(* (core/stl_loader.py), the cancellable simplifier                        *)
(* (core/mesh_simplifier.py), the circle detection                         *)
(* (core/feature_detector.py) and the preview window with its worker       *)
(* thread (gui/drawing_preview_window.py).                                 *)
(*                                                                         *)
(* Numbers.  The program computes with floats.  The model computes with    *)
(* integers in fixed point: every length and 2D/3D view coordinate is a    *)
(* whole number of ticks, Unit ticks to one model unit.  Mesh vertex       *)
(* coordinates are whole model units, so every orthographic quantity is    *)
(* exact; the isometric rotation matrix is the program's matrix rounded to *)
(* one tick.  Angles of angle dimensions are whole degrees.                *)
(*                                                                         *)
(* Indices.  Python sequences are 0-based; a Python index i is element     *)
(* i + 1 of the TLA+ sequence that models the array.                       *)
(***************************************************************************)
EXTENDS Integers, Sequences, FiniteSets, TLC

VARIABLES
    \* ---- DimensionSystem (one instance) and the widget that owns systems
    dimensions,         \* self.dimensions
    occupied_regions,   \* self.occupied_regions
    ret,                \* the list returned by the last call (a created
                        \* Dimension is returned as a one-element list)
    last,               \* the last call and its arguments
    linear_calls,       \* create_horizontal/vertical calls since clear()
    dimension_systems,  \* TechnicalDrawingWidget.dimension_systems
    \* ---- topology and projection
    input,              \* the arrays handed to the constructors
    engine,             \* two ProjectionEngine objects built from `input`
    analyzer,           \* a GeometryAnalyzer built from `input`
    result,             \* what the last project_view call returned
    first,              \* the first view project_view ever returned
    \* ---- MeshSimplifier (one instance) and the loader beside it
    should_cancel,      \* self.should_cancel
    simplify_pc,        \* where the simplify() call stands
    mesh,               \* the argument of the running simplify() call
    work,               \* the locals of simplify() computed so far
    started,            \* the stages simplify() has started, in order
    outcome,            \* what simplify() returned or raised
    cancel_at,          \* where simplify() stood when cancel() set the flag
    decimations,        \* calls of simplify_quadric_decimation in this run
    mesh_data,          \* what STLLoader.load handed on for `mesh`
    \* ---- DrawingPreviewWindow and its ProjectionWorker thread
    window,             \* the window's fields
    worker,             \* the worker thread: its state and run()'s locals
    events,             \* signals queued for the GUI thread, oldest first
    drawing_widget,     \* the window's TechnicalDrawingWidget
    \* ---- FeatureDetector
    detection,          \* the last _detect_circles call and what it returned
    \* ---- ProgressTracker (one instance)
    tracker,            \* self.cancelled, and what the operation using it did
    \* ---- MainWindow's STLLoaderWorker thread
    loader_worker       \* the thread: its state, run()'s position and signals

dimVars  == <<dimensions, occupied_regions, ret, last, linear_calls,
              dimension_systems>>
projVars == <<input, engine, analyzer, result, first>>
simpVars == <<should_cancel, simplify_pc, mesh, work, started, outcome,
              cancel_at, decimations, mesh_data>>
winVars  == <<window, worker, events, drawing_widget>>
detVars  == <<detection>>
trackVars == <<tracker>>
loadVars == <<loader_worker>>
vars     == <<dimVars, projVars, simpVars, winVars, detVars, trackVars,
              loadVars>>

\* What the actions of each part leave alone.
notDimVars  == <<projVars, simpVars, winVars, detVars, trackVars, loadVars>>
notProjVars == <<dimVars, simpVars, winVars, detVars, trackVars, loadVars>>
notSimpVars == <<dimVars, projVars, winVars, detVars, trackVars, loadVars>>
notWinVars  == <<dimVars, projVars, simpVars, detVars, trackVars, loadVars>>
notDetVars  == <<dimVars, projVars, simpVars, winVars, trackVars, loadVars>>
notTrackVars == <<dimVars, projVars, simpVars, winVars, detVars, loadVars>>
notLoadVars == <<dimVars, projVars, simpVars, winVars, detVars, trackVars>>

-----------------------------------------------------------------------------
(* Arithmetic *)

\* Ticks per model unit.
Unit == 1000 * 1000

Abs(x) == IF x < 0 THEN -x ELSE x
Min2(a, b) == IF a < b THEN a ELSE b
Max2(a, b) == IF a > b THEN a ELSE b

SetMin(S) == CHOOSE m \in S : \A x \in S : m <= x
SetMax(S) == CHOOSE m \in S : \A x \in S : m >= x

Range(s) == {s[i] : i \in 1..Len(s)}
Indices(n) == [i \in 1..n |-> i]

\* sqrt(du^2 + dv^2) > t for t >= 0, without leaving 32-bit integers.
LengthExceeds(du, dv, t) ==
    IF Abs(du) > t \/ Abs(dv) > t THEN TRUE
    ELSE du * du + dv * dv > t * t

-----------------------------------------------------------------------------
(* core/projection_engine.py: ViewType *)

OrthoViews == {"front", "back", "top", "bottom", "left", "right"}
ViewType == OrthoViews \cup {"isometric"}


-----------------------------------------------------------------------------
(* Vectors and numpy indexing *)

Vec(p, q) == <<q[1] - p[1], q[2] - p[2], q[3] - p[3]>>
Dot(a, b) == a[1] * b[1] + a[2] * b[2] + a[3] * b[3]
Cross(a, b) == <<a[2] * b[3] - a[3] * b[2],
                 a[3] * b[1] - a[1] * b[3],
                 a[1] * b[2] - a[2] * b[1]>>

RECURSIVE Gcd(_, _)
Gcd(a, b) == IF b = 0 THEN a ELSE Gcd(b, a % b)

\* n / |n| with |n| = 0 replaced by 1: the direction of n scaled by a
\* positive number, the zero vector staying zero.  The model's positive
\* scale is 1 / gcd of the components, which keeps the direction in whole
\* numbers; only the direction and its sign are read downstream.
Normalize(n) ==
    LET g == Gcd(Gcd(Abs(n[1]), Abs(n[2])), Abs(n[3]))
    IN  IF g = 0 THEN n ELSE <<n[1] \div g, n[2] \div g, n[3] \div g>>

\* a[i] for a numpy array of n rows and an integer i: rows are counted from
\* the end for -n <= i < 0, and anything else raises IndexError.
IndexInRange(n, i) == -n <= i /\ i < n
NumpyIndex(n, i) == IF i < 0 THEN i + n ELSE i
At(arr, i) == arr[NumpyIndex(Len(arr), i) + 1]

\* The indices of a face array that numpy accepts for `vertices`.
FacesIndexable(vertices, faces) ==
    \A f \in 1..Len(faces) : \A j \in 1..3 :
        IndexInRange(Len(vertices), faces[f][j])

-----------------------------------------------------------------------------
(* Topology: face normals and the edge -> faces dictionaries *)

\* The normal of one face from its three vertex rows.
FaceNormal(vertices, face) ==
    LET v0 == At(vertices, face[1])
        v1 == At(vertices, face[2])
        v2 == At(vertices, face[3])
    IN  Normalize(Cross(Vec(v0, v1), Vec(v0, v2)))

\* ProjectionEngine._compute_face_normals_vectorized
_compute_face_normals_vectorized(vertices, faces) ==
    [f \in 1..Len(faces) |-> FaceNormal(vertices, faces[f])]

\* A Python dict of lists, in insertion order: a sequence of
\* [key, faces] entries.  d.get(key, []).
DictHas(d, key) == \E i \in 1..Len(d) : d[i].key = key
DictGet(d, key) ==
    IF DictHas(d, key)
    THEN d[CHOOSE i \in 1..Len(d) : d[i].key = key].faces
    ELSE <<>>

\* A variant of EdgeKey that keeps the order in which the face gives the two
\* vertices.
EdgeKeyAsGiven(v1, v2) == <<v1, v2>>

\* edge_key = (min(v1, v2), max(v1, v2))
EdgeKey(v1, v2) == <<Min2(v1, v2), Max2(v1, v2)>>

\* The double loop
\*     for face_idx in range(len(faces)):
\*         for i in range(3):
\*             v1, v2 = face[i], face[(i + 1) % 3]
\*             edge_key = (min(v1, v2), max(v1, v2))
\*             if edge_key not in edge_map: edge_map[edge_key] = []
\*             edge_map[edge_key].append(face_idx)
\* Step n (1-based) visits face (n - 1) \div 3 (0-based) and its edge
\* i = (n - 1) % 3.  The dict ends with one entry per key, in the order of
\* the steps that met each key first, and under each key the face of every
\* step that met it, in step order.
EdgeMapSteps(faces) ==
    [n \in 1..(3 * Len(faces)) |->
        LET face_idx == (n - 1) \div 3
            i == (n - 1) % 3
            face == faces[face_idx + 1]
        IN  [key |-> EdgeKey(face[i + 1], face[((i + 1) % 3) + 1]),
             face_idx |-> face_idx]]

EdgeMapLoop(faces) ==
    LET steps == EdgeMapSteps(faces)
        all == Indices(Len(steps))
        inserting == SelectSeq(all, LAMBDA n :
                        \A m \in 1..(n - 1) : steps[m].key # steps[n].key)
        Appended(key) ==
            LET hits == SelectSeq(all, LAMBDA n : steps[n].key = key)
            IN  [j \in 1..Len(hits) |-> steps[hits[j]].face_idx]
    IN  [k \in 1..Len(inserting) |->
            [key |-> steps[inserting[k]].key,
             faces |-> Appended(steps[inserting[k]].key)]]

\* ProjectionEngine._build_edge_face_map_fast
_build_edge_face_map_fast(faces) == EdgeMapLoop(faces)

\* ProjectionEngine.__init__: the fields of a constructed engine, or the
\* IndexError that numpy raises in _compute_face_normals_vectorized.
NoEngine == [status |-> "none"]
ProjectionEngine(vertices, faces, edges) ==
    IF ~FacesIndexable(vertices, faces)
    THEN [status |-> "IndexError"]
    ELSE [status |-> "ok",
          vertices |-> vertices,
          faces |-> faces,
          edges |-> edges,
          face_normals |-> _compute_face_normals_vectorized(vertices, faces),
          edge_to_faces |-> _build_edge_face_map_fast(faces)]

-----------------------------------------------------------------------------
(* core/projection_engine.py: project_view and _project_isometric *)

MatVec(R, v) == <<Dot(R[1], v), Dot(R[2], v), Dot(R[3], v)>>

\* Edges shorter than this in the view are dropped: 0.001 model units.
LengthEps == Unit \div 1000

\* ProjectionEngine.VIEW_TRANSFORMS (rotation entries in model units)
VIEW_TRANSFORMS(view_type) ==
    CASE view_type = "front" ->
           [rotation |-> <<<<1, 0, 0>>, <<0, 1, 0>>, <<0, 0, 1>>>>,
            project_axes |-> <<0, 1>>, depth_axis |-> 2,
            flip_h |-> FALSE, flip_v |-> FALSE]
      [] view_type = "back" ->
           [rotation |-> <<<<-1, 0, 0>>, <<0, 1, 0>>, <<0, 0, -1>>>>,
            project_axes |-> <<0, 1>>, depth_axis |-> 2,
            flip_h |-> FALSE, flip_v |-> FALSE]
      [] view_type = "top" ->
           [rotation |-> <<<<1, 0, 0>>, <<0, 0, -1>>, <<0, 1, 0>>>>,
            project_axes |-> <<0, 1>>, depth_axis |-> 2,
            flip_h |-> FALSE, flip_v |-> TRUE]
      [] view_type = "bottom" ->
           [rotation |-> <<<<1, 0, 0>>, <<0, 0, 1>>, <<0, -1, 0>>>>,
            project_axes |-> <<0, 1>>, depth_axis |-> 2,
            flip_h |-> FALSE, flip_v |-> FALSE]
      [] view_type = "left" ->
           [rotation |-> <<<<0, 0, 1>>, <<0, 1, 0>>, <<-1, 0, 0>>>>,
            project_axes |-> <<0, 1>>, depth_axis |-> 2,
            flip_h |-> FALSE, flip_v |-> FALSE]
      [] view_type = "right" ->
           [rotation |-> <<<<0, 0, -1>>, <<0, 1, 0>>, <<1, 0, 0>>>>,
            project_axes |-> <<0, 1>>, depth_axis |-> 2,
            flip_h |-> FALSE, flip_v |-> FALSE]

\* rotation = rx @ ry of _project_isometric for angle_x = 35.264 degrees and
\* angle_y = 45 degrees, each entry in ticks (millionths).
IsoRotation == <<<<707107, 0, 707107>>,
                 <<408244, 816501, -408244>>,
                 <<-577353, 577345, 577353>>>>

\* np.dot(rotated_normals, -view_direction) > 0, view_direction = (0, 0, -1)
\* A test that also takes a face seen edge-on for front-facing.
FrontFacingOrEdgeOn(rotated_normal) == Dot(rotated_normal, <<0, 0, 1>>) >= 0
FrontFacing(rotated_normal) == Dot(rotated_normal, <<0, 0, 1>>) > 0

\* The ProjectedView of an empty result: bounds=(0,0,0,0), and the
\* dataclass defaults width = height = 0.0.
EmptyView(view_type) ==
    [view_type |-> view_type, edges |-> <<>>, circles |-> <<>>,
     bounds |-> <<0, 0, 0, 0>>, width |-> 0, height |-> 0]

\* The steps below are written once; project_view and _project_isometric
\* each carry their own copy of them in the source.

\* rotated_normals = self.face_normals @ rotation.T and
\* face_visibility = np.dot(rotated_normals, -view_direction) > 0
face_visibility(eng, rotation) ==
    [f \in 1..Len(eng.faces) |->
        FrontFacing(MatVec(rotation, eng.face_normals[f]))]

\* rotated_vertices = self.vertices @ rotation.T, then for every edge its
\* two projected end points (with the flips) and its depth, in ticks.
\* `scale` brings a rotated coordinate to ticks.
EdgeEnds(eng, rotation, scale, transform) ==
    LET ax_u == transform.project_axes[1]
        ax_v == transform.project_axes[2]
        depth_axis == transform.depth_axis
        rotated_vertices ==
            [i \in 1..Len(eng.vertices) |->
                LET r == MatVec(rotation, eng.vertices[i])
                IN  <<r[1] * scale, r[2] * scale, r[3] * scale>>]
        U(p) == IF transform.flip_h THEN -p[ax_u + 1] ELSE p[ax_u + 1]
        V(p) == IF transform.flip_v THEN -p[ax_v + 1] ELSE p[ax_v + 1]
    IN  [i \in 1..Len(eng.edges) |->
            LET v1_3d == At(rotated_vertices, eng.edges[i][1])
                v2_3d == At(rotated_vertices, eng.edges[i][2])
            IN  [u1 |-> U(v1_3d), v1 |-> V(v1_3d),
                 u2 |-> U(v2_3d), v2 |-> V(v2_3d),
                 depth |-> (v1_3d[depth_axis + 1] + v2_3d[depth_axis + 1])
                              \div 2]]

\* A variant of valid_mask that keeps every edge.
ValidMaskKeepsAll(ends) == Indices(Len(ends))

\* valid_mask = lengths > 0.001, as the indices it keeps, in order
valid_mask(ends) ==
    SelectSeq(Indices(Len(ends)), LAMBDA i :
        LengthExceeds(ends[i].u2 - ends[i].u1, ends[i].v2 - ends[i].v1,
                      LengthEps))

\* One pass of the loop over the edges: the Edge2D appended for edge i.
Edge2D(eng, ends, visibility, i) ==
    LET edge_key == EdgeKey(eng.edges[i][1], eng.edges[i][2])
        adjacent_faces == DictGet(eng.edge_to_faces, edge_key)
        vis1 == visibility[adjacent_faces[1] + 1]
        vis2 == visibility[adjacent_faces[2] + 1]
    IN  [start |-> <<ends[i].u1, ends[i].v1>>,
         end |-> <<ends[i].u2, ends[i].v2>>,
         is_visible |->
            IF Len(adjacent_faces) = 1 THEN vis1
            ELSE IF Len(adjacent_faces) = 2 THEN vis1 \/ vis2
            ELSE FALSE,
         is_silhouette |->
            IF Len(adjacent_faces) = 1 THEN TRUE
            ELSE IF Len(adjacent_faces) = 2 THEN vis1 # vis2
            ELSE FALSE,
         depth |-> ends[i].depth]

\* A variant of Bounds that takes the extent of every edge, kept or not.
BoundsOfAllEdges(ends, kept) ==
    LET all_u == {ends[i].u1 : i \in 1..Len(ends)}
                    \cup {ends[i].u2 : i \in 1..Len(ends)}
        all_v == {ends[i].v1 : i \in 1..Len(ends)}
                    \cup {ends[i].v2 : i \in 1..Len(ends)}
    IN  <<SetMin(all_u), SetMin(all_v), SetMax(all_u), SetMax(all_v)>>

\* bounds = (min_x, min_y, max_x, max_y) over u1[valid_mask], u2[valid_mask]
\* and v1[valid_mask], v2[valid_mask]; at least one edge is kept.
Bounds(ends, kept) ==
    LET all_u == {ends[i].u1 : i \in Range(kept)}
                    \cup {ends[i].u2 : i \in Range(kept)}
        all_v == {ends[i].v1 : i \in Range(kept)}
                    \cup {ends[i].v2 : i \in Range(kept)}
    IN  <<SetMin(all_u), SetMin(all_v), SetMax(all_u), SetMax(all_v)>>

\* From the empty-edges test to the return: the loop and the bounds.
ProjectEdges(eng, view_type, ends, visibility) ==
    LET kept == valid_mask(ends)
        projected_edges ==
            [k \in 1..Len(kept) |-> Edge2D(eng, ends, visibility, kept[k])]
        bounds == Bounds(ends, kept)
    IN  IF Len(eng.edges) = 0 THEN EmptyView(view_type)
        ELSE IF Len(projected_edges) = 0
        THEN [view_type |-> view_type, edges |-> projected_edges,
              circles |-> <<>>, bounds |-> <<0, 0, 0, 0>>,
              width |-> 0, height |-> 0]
        ELSE [view_type |-> view_type, edges |-> projected_edges,
              circles |-> <<>>, bounds |-> bounds,
              width |-> bounds[3] - bounds[1],
              height |-> bounds[4] - bounds[2]]

\* The axes of _project_isometric: columns 0 and 1, depth 2, no flip.
IsoTransform ==
    [rotation |-> IsoRotation, project_axes |-> <<0, 1>>, depth_axis |-> 2,
     flip_h |-> FALSE, flip_v |-> FALSE]

\* The rotation of a view, the edge ends and the face visibility in it.
\* Orthographic rotations have whole entries and the ends are scaled to
\* ticks; IsoRotation is in ticks already.
Rotation(view_type) ==
    IF view_type = "isometric" THEN IsoRotation
    ELSE VIEW_TRANSFORMS(view_type).rotation
Ends(eng, view_type) ==
    IF view_type = "isometric"
    THEN EdgeEnds(eng, IsoRotation, 1, IsoTransform)
    ELSE EdgeEnds(eng, VIEW_TRANSFORMS(view_type).rotation, Unit,
                  VIEW_TRANSFORMS(view_type))

\* ProjectionEngine._project_isometric
_project_isometric(eng) ==
    ProjectEdges(eng, "isometric", Ends(eng, "isometric"),
                 face_visibility(eng, Rotation("isometric")))

\* ProjectionEngine.project_view
project_view(eng, view_type) ==
    IF view_type = "isometric" THEN _project_isometric(eng)
    ELSE ProjectEdges(eng, view_type, Ends(eng, view_type),
                      face_visibility(eng, Rotation(view_type)))

\* ProjectionEngine.get_bounding_dimensions (the three extents), in ticks
get_bounding_dimensions(eng) ==
    LET xs == {eng.vertices[i][1] : i \in 1..Len(eng.vertices)}
        ys == {eng.vertices[i][2] : i \in 1..Len(eng.vertices)}
        zs == {eng.vertices[i][3] : i \in 1..Len(eng.vertices)}
    IN  [width |-> (SetMax(xs) - SetMin(xs)) * Unit,
         height |-> (SetMax(ys) - SetMin(ys)) * Unit,
         depth |-> (SetMax(zs) - SetMin(zs)) * Unit]

-----------------------------------------------------------------------------
(* core/geometry_analyzer.py: GeometryAnalyzer construction *)

\* GeometryAnalyzer._compute_face_properties (the normals)
_compute_face_properties(vertices, faces) ==
    [f \in 1..Len(faces) |-> FaceNormal(vertices, faces[f])]

\* GeometryAnalyzer._build_adjacency_maps: _edge_to_faces, then for every
\* face the set of other faces listed under one of its three edge keys.
_build_adjacency_maps(faces) ==
    LET edge_to_faces == EdgeMapLoop(faces)
        KeysOf(face) == {EdgeKey(face[j], face[(j % 3) + 1]) : j \in 1..3}
        Adjacent(i) ==
            {adj \in UNION {Range(DictGet(edge_to_faces, k)) :
                                k \in KeysOf(faces[i + 1])} : adj # i}
    IN  [edge_to_faces |-> edge_to_faces,
         face_adjacency |-> [f \in 1..Len(faces) |-> Adjacent(f - 1)]]

\* The indices of an edge array that numpy accepts for `vertices`.
EdgesIndexable(vertices, edges) ==
    \A e \in 1..Len(edges) : \A j \in 1..2 :
        IndexInRange(Len(vertices), edges[e][j])

\* GeometryAnalyzer.__init__ / _analyze_geometry: the fields of a
\* constructed analyzer, or the IndexError raised on the way
\* (_compute_face_properties indexes the vertices by the faces,
\* _analyze_edges by the edges).
NoAnalyzer == [status |-> "none"]
GeometryAnalyzer(vertices, faces, edges) ==
    IF ~FacesIndexable(vertices, faces) \/ ~EdgesIndexable(vertices, edges)
    THEN [status |-> "IndexError"]
    ELSE LET maps == _build_adjacency_maps(faces)
         IN  [status |-> "ok",
              vertices |-> vertices,
              faces |-> faces,
              edges |-> edges,
              face_normals |-> _compute_face_properties(vertices, faces),
              edge_to_faces |-> maps.edge_to_faces,
              face_adjacency |-> maps.face_adjacency]

-----------------------------------------------------------------------------
(* core/stl_loader.py: feature-edge extraction *)

\* feature_angle_threshold = 20.0 degrees
feature_angle_threshold == 20
\* cos(20 degrees) squared, in millionths
CosSqThreshold == 883022

\* STLLoader._build_edge_face_map
_build_edge_face_map(faces) == EdgeMapLoop(faces)

\* A variant of AngleExceedsThreshold with the test reversed: it keeps the
\* edges between faces that meet at 20 degrees or less.
AngleWithinThreshold(n1, n2) ==
    LET d == Dot(n1, n2)
    IN  IF d <= 0 THEN FALSE
        ELSE d * d * 1000000 >= CosSqThreshold * Dot(n1, n1) * Dot(n2, n2)

\* arccos(clip(dot(n1, n2), -1, 1)) > radians(20) for the unit normals of
\* the directions n1, n2 (a zero normal stays zero: dot 0, angle 90):
\* cos(angle) < cos(20), decided on the squares.
AngleExceedsThreshold(n1, n2) ==
    LET d == Dot(n1, n2)
    IN  IF d <= 0 THEN TRUE
        ELSE d * d * 1000000 < CosSqThreshold * Dot(n1, n1) * Dot(n2, n2)

\* STLLoader._simplify_mesh_for_drawing
_simplify_mesh_for_drawing(vertices, faces) ==
    LET face_normals == [f \in 1..Len(faces) |-> FaceNormal(vertices, faces[f])]
        edge_to_faces == _build_edge_face_map(faces)
        Important(e) ==
            IF Len(e.faces) = 1 THEN TRUE
            ELSE IF Len(e.faces) = 2
            THEN AngleExceedsThreshold(face_normals[e.faces[1] + 1],
                                       face_normals[e.faces[2] + 1])
            ELSE FALSE
        important_edges == SelectSeq(edge_to_faces, Important)
        boundary == SelectSeq(edge_to_faces, LAMBDA e : Len(e.faces) = 1)
        kept == IF Len(important_edges) = 0 THEN boundary ELSE important_edges
    IN  [k \in 1..Len(kept) |-> kept[k].key]

-----------------------------------------------------------------------------
(* Input meshes *)

\* create_samples.create_cube: the 8 vertices, stretched to a box
BoxVertices(w, h, d) ==
    << <<0, 0, 0>>, <<w, 0, 0>>, <<w, h, 0>>, <<0, h, 0>>,
       <<0, 0, d>>, <<w, 0, d>>, <<w, h, d>>, <<0, h, d>> >>
CubeVertices(size) == BoxVertices(size, size, size)

\* create_samples.create_cube: the 12 triangles
CubeFaces ==
    << <<0, 3, 1>>, <<1, 3, 2>>,  <<4, 5, 7>>, <<5, 6, 7>>,
       <<0, 1, 4>>, <<1, 5, 4>>,  <<2, 3, 6>>, <<3, 7, 6>>,
       <<0, 4, 3>>, <<3, 4, 7>>,  <<1, 2, 5>>, <<2, 6, 5>> >>

\* A mesh as the loader hands it on: edges from the feature extraction.
\* STLLoader._extract_all_edges: the sides of the faces, once each.  The
\* program lists the set in its iteration order; the model lists it sorted.
RECURSIVE SortedPairs(_)
SortedPairs(S) ==
    IF S = {} THEN <<>>
    ELSE LET m == CHOOSE x \in S :
                     \A y \in S : \/ x[1] < y[1]
                                  \/ x[1] = y[1] /\ x[2] <= y[2]
         IN  <<m>> \o SortedPairs(S \ {m})
_extract_all_edges(faces) ==
    SortedPairs({ EdgeKey(faces[f][p[1]], faces[f][p[2]]) :
                    f \in 1..Len(faces),
                    p \in { <<1, 2>>, <<2, 3>>, <<3, 1>> } })

\* What STLLoader.load hands on without simplification.
LoadedAllEdges(vertices, faces) ==
    [vertices |-> vertices, faces |-> faces,
     edges |-> _extract_all_edges(faces)]

Loaded(vertices, faces) ==
    [vertices |-> vertices, faces |-> faces,
     edges |-> _simplify_mesh_for_drawing(vertices, faces)]

Mesh(vertices, faces, edges) ==
    [vertices |-> vertices, faces |-> faces, edges |-> edges]

CubeSizes == {1, 10}
Cube(size) == Loaded(CubeVertices(size), CubeFaces)
Boxes == {Loaded(BoxVertices(50, 30, 20), CubeFaces)}

TriVertices == << <<0, 0, 0>>, <<2, 0, 0>>, <<0, 1, 0>>, <<0, 0, 1>>,
                  <<3, 3, 0>>, <<3, 3, 2>> >>

\* Meshes whose faces and edges index existing vertices by 0..N-1.
PlainMeshes ==
    {Cube(s) : s \in CubeSizes} \cup Boxes \cup
    { \* one triangle in the XY plane
      Loaded(TriVertices, << <<0, 1, 2>> >>),
      \* two triangles folded along the edge (0, 1)
      Loaded(TriVertices, << <<0, 1, 2>>, <<0, 3, 1>> >>),
      \* three triangles around the edge (0, 1): a non-manifold edge
      Loaded(TriVertices, << <<0, 1, 2>>, <<0, 3, 1>>, <<0, 1, 4>> >>),
      \* a tetrahedron
      Loaded(TriVertices, << <<0, 2, 1>>, <<0, 1, 3>>, <<0, 3, 2>>,
                             <<1, 2, 3>> >>),
      \* a face with a repeated vertex, alone and beside a proper face
      Loaded(TriVertices, << <<0, 1, 1>> >>),
      Loaded(TriVertices, << <<0, 2, 2>>, <<0, 1, 3>> >>),
      \* the non-manifold edge, and a face with a repeated vertex beside a
      \* proper face, with all their edges
      LoadedAllEdges(TriVertices,
                     << <<0, 1, 2>>, <<0, 3, 1>>, <<0, 1, 4>> >>),
      LoadedAllEdges(TriVertices, << <<0, 1, 1>>, <<0, 1, 2>> >>),
      \* no edges at all
      Mesh(TriVertices, << <<0, 1, 2>> >>, <<>>),
      \* an edge along Z away from the triangle, adjacent to no face
      Mesh(TriVertices, << <<0, 1, 2>> >>,
           << <<0, 1>>, <<1, 2>>, <<4, 5>> >>),
      \* only an edge along Z
      Mesh(TriVertices, <<>>, << <<4, 5>> >>) }

\* Meshes with an index outside 0..N-1.
OutOfRangeMeshes ==
    { Mesh(TriVertices, << <<0, 1, 6>> >>, << <<0, 1>> >>),
      Mesh(TriVertices, << <<0, 1, 2>>, <<1, 0, -3>> >>, << <<0, 1>> >>),
      Mesh(TriVertices, << <<0, 1, -7>> >>, << <<0, 1>> >>),
      Mesh(TriVertices, << <<0, 1, 2>> >>, << <<0, 9>> >>) }

Meshes == PlainMeshes \cup OutOfRangeMeshes

-----------------------------------------------------------------------------
(* Topology and projection: the state machine *)

Engines == {1, 2}

NoResult == [kind |-> "none"]

InitProj ==
    /\ input \in Meshes
    /\ engine = [e \in Engines |-> NoEngine]
    /\ analyzer = NoAnalyzer
    /\ result = NoResult
    /\ first = NoResult

\* ProjectionEngine(vertices, faces, edges)
NewProjectionEngine(e) ==
    /\ engine[e].status = "none"
    /\ engine' = [engine EXCEPT
                    ![e] = ProjectionEngine(input.vertices, input.faces,
                                            input.edges)]
    /\ UNCHANGED <<input, analyzer, result, first>>
    /\ UNCHANGED notProjVars

\* GeometryAnalyzer(vertices, faces, edges)
NewGeometryAnalyzer ==
    /\ analyzer.status = "none"
    /\ analyzer' = GeometryAnalyzer(input.vertices, input.faces, input.edges)
    /\ UNCHANGED <<input, engine, result, first>>
    /\ UNCHANGED notProjVars

\* A variant of ProjectViewCall that rotates in place: an orthographic call
\* leaves the rotated vertices in self.vertices.
ProjectViewCallInPlace(e, view_type) ==
    /\ engine[e].status = "ok"
    /\ IF EdgesIndexable(engine[e].vertices, engine[e].edges)
       THEN LET view == project_view(engine[e], view_type)
                rotation == Rotation(view_type)
                rotated_vertices ==
                    [i \in 1..Len(engine[e].vertices) |->
                        MatVec(rotation, engine[e].vertices[i])]
            IN  /\ result' = [kind |-> "view", engine |-> e,
                              view_type |-> view_type, view |-> view]
                /\ first' = IF first.kind = "none"
                            THEN [kind |-> "view", engine |-> e,
                                  view_type |-> view_type, view |-> view]
                            ELSE first
                /\ engine' = IF view_type = "isometric" THEN engine
                             ELSE [engine EXCEPT
                                     ![e].vertices = rotated_vertices]
       ELSE /\ result' = [kind |-> "IndexError", engine |-> e,
                          view_type |-> view_type]
            /\ first' = first
            /\ engine' = engine
    /\ UNCHANGED <<input, analyzer>>
    /\ UNCHANGED notProjVars

\* engine.project_view(view_type) on a constructed engine: it returns a
\* ProjectedView, or numpy raises IndexError on an edge index outside the
\* vertex array.  No field of the engine is assigned.
ProjectViewCall(e, view_type) ==
    /\ engine[e].status = "ok"
    /\ IF EdgesIndexable(engine[e].vertices, engine[e].edges)
       THEN LET view == project_view(engine[e], view_type)
            IN  /\ result' = [kind |-> "view", engine |-> e,
                              view_type |-> view_type, view |-> view]
                /\ first' = IF first.kind = "none"
                            THEN [kind |-> "view", engine |-> e,
                                  view_type |-> view_type, view |-> view]
                            ELSE first
       ELSE /\ result' = [kind |-> "IndexError", engine |-> e,
                          view_type |-> view_type]
            /\ first' = first
    /\ UNCHANGED <<input, engine, analyzer>>
    /\ UNCHANGED notProjVars

NextProj ==
    \/ \E e \in Engines : NewProjectionEngine(e)
    \/ NewGeometryAnalyzer
    \/ \E e \in Engines : \E view_type \in ViewType :
          ProjectViewCall(e, view_type)

-----------------------------------------------------------------------------
(* core/dimension_system.py *)

\* _find_free_layer: max_layers = 5
max_layers == 5
\* the stride of one layer: `layer * 8`
LayerStride == 8
\* the margin of a dimension line's rectangle: `dim_y - 5`, `dim_y + 5`
Margin == 5
\* create_angle_dimension: radius = 15.0
DefaultRadius == 15

\* DimensionStyle defaults, in ticks
text_gap == (3 * Unit) \div 2
extension_gap == (3 * Unit) \div 2
extension_overshoot == 2 * Unit

\* A point at distance r from (x, y) in the direction of half of `twice`
\* degrees: (x + r * cos(rad), y + r * sin(rad)), kept in polar form.
Polar(x, y, r, twice) == [x |-> x, y |-> y, r |-> r, twice_angle |-> twice]

\* DimensionSystem._find_free_layer: the while loop from `layer` on.  The
\* rectangle tested is the one passed in, at every layer.
RectHits(x1, y1, x2, y2, region) ==
    ~(x2 < region[1] \/ x1 > region[3] \/ y2 < region[2] \/ y1 > region[4])

RECURSIVE FindFreeLayerLoop(_, _, _, _, _, _)
FindFreeLayerLoop(regions, x1, y1, x2, y2, layer) ==
    IF layer < max_layers
    THEN LET collision ==
                \E r \in 1..Len(regions) : RectHits(x1, y1, x2, y2, regions[r])
         IN  IF ~collision THEN layer
             ELSE FindFreeLayerLoop(regions, x1, y1, x2, y2, layer + 1)
    ELSE layer

_find_free_layer(regions, x1, y1, x2, y2, direction) ==
    FindFreeLayerLoop(regions, x1, y1, x2, y2, 0)

\* A variant of _mark_region_occupied that keeps the list free of duplicates:
\* a rectangle already recorded is not recorded again.
MarkRegionOnce(regions, x1, y1, x2, y2) ==
    LET rect == <<Min2(x1, x2), Min2(y1, y2), Max2(x1, x2), Max2(y1, y2)>>
    IN  IF rect \in Range(regions) THEN regions ELSE Append(regions, rect)

\* DimensionSystem._mark_region_occupied
_mark_region_occupied(regions, x1, y1, x2, y2) ==
    Append(regions, <<Min2(x1, x2), Min2(y1, y2), Max2(x1, x2), Max2(y1, y2)>>)

\* A DimensionSystem: its two lists.
System(dims, regions) == [dimensions |-> dims, occupied_regions |-> regions]
EmptySystem == System(<<>>, <<>>)

\* DimensionSystem.create_horizontal_dimension: the Dimension returned and
\* the system after the call.
create_horizontal_dimension(sys, px1, py1, px2, py2, value, offset) ==
    LET swap == px1 > px2
        x1 == IF swap THEN px2 ELSE px1
        x2 == IF swap THEN px1 ELSE px2
        y1 == IF swap THEN py2 ELSE py1
        y2 == IF swap THEN py1 ELSE py2
        min_y == Min2(y1, y2)
        dim_y0 == min_y - offset
        layer == _find_free_layer(sys.occupied_regions,
                                  x1, dim_y0 - Margin * Unit,
                                  x2, dim_y0 + Margin * Unit, "horizontal")
        dim_y == min_y - offset - (layer * LayerStride * Unit)
        dim == [dim_type |-> "linear_h",
                value |-> value,
                point1 |-> <<x1, y1>>,
                point2 |-> <<x2, y2>>,
                dim_line_start |-> <<x1, dim_y>>,
                dim_line_end |-> <<x2, dim_y>>,
                text_position |-> <<(x1 + x2) \div 2, dim_y - text_gap>>,
                text_rotation |-> 0,
                ext_line1_start |-> <<x1, y1 - extension_gap>>,
                ext_line1_end |-> <<x1, dim_y - extension_overshoot>>,
                ext_line2_start |-> <<x2, y2 - extension_gap>>,
                ext_line2_end |-> <<x2, dim_y - extension_overshoot>>,
                layer |-> layer]
    IN  [dim |-> dim,
         sys |-> System(Append(sys.dimensions, dim),
                        _mark_region_occupied(sys.occupied_regions,
                                              x1, dim_y - Margin * Unit,
                                              x2, dim_y + Margin * Unit))]

\* DimensionSystem.create_vertical_dimension
create_vertical_dimension(sys, px1, py1, px2, py2, value, offset) ==
    LET swap == py1 > py2
        x1 == IF swap THEN px2 ELSE px1
        x2 == IF swap THEN px1 ELSE px2
        y1 == IF swap THEN py2 ELSE py1
        y2 == IF swap THEN py1 ELSE py2
        max_x == Max2(x1, x2)
        dim_x0 == max_x + offset
        layer == _find_free_layer(sys.occupied_regions,
                                  dim_x0 - Margin * Unit, y1,
                                  dim_x0 + Margin * Unit, y2, "vertical")
        dim_x == max_x + offset + (layer * LayerStride * Unit)
        dim == [dim_type |-> "linear_v",
                value |-> value,
                point1 |-> <<x1, y1>>,
                point2 |-> <<x2, y2>>,
                dim_line_start |-> <<dim_x, y1>>,
                dim_line_end |-> <<dim_x, y2>>,
                text_position |-> <<dim_x + text_gap, (y1 + y2) \div 2>>,
                text_rotation |-> -90,
                ext_line1_start |-> <<x1 + extension_gap, y1>>,
                ext_line1_end |-> <<dim_x + extension_overshoot, y1>>,
                ext_line2_start |-> <<x2 + extension_gap, y2>>,
                ext_line2_end |-> <<dim_x + extension_overshoot, y2>>,
                layer |-> layer]
    IN  [dim |-> dim,
         sys |-> System(Append(sys.dimensions, dim),
                        _mark_region_occupied(sys.occupied_regions,
                                              dim_x - Margin * Unit, y1,
                                              dim_x + Margin * Unit, y2))]

\* The value create_angle_dimension stores, in degrees:
\*   angle_diff = abs(angle2 - angle1)
\*   if angle_diff > 180: angle_diff = 360 - angle_diff
AngleDiff(angle1, angle2) ==
    LET angle_diff == Abs(angle2 - angle1)
    IN  IF angle_diff > 180 THEN 360 - angle_diff ELSE angle_diff

\* DimensionSystem.create_angle_dimension.  mid_angle = (angle1 + angle2) / 2
\* is kept doubled; the occupied regions are not touched.
create_angle_dimension(sys, vertex_x, vertex_y, angle1, angle2, radius) ==
    LET twice_mid == angle1 + angle2
        dim == [dim_type |-> "angle",
                value |-> AngleDiff(angle1, angle2),
                point1 |-> <<vertex_x, vertex_y>>,
                point2 |-> Polar(vertex_x, vertex_y, radius, twice_mid),
                dim_line_start |-> <<vertex_x, vertex_y>>,
                dim_line_end |-> Polar(vertex_x, vertex_y, radius, twice_mid),
                text_position |->
                    Polar(vertex_x, vertex_y, radius + text_gap, twice_mid),
                text_rotation |-> 0,
                ext_line1_start |-> <<0, 0>>,
                ext_line1_end |-> <<0, 0>>,
                ext_line2_start |-> <<0, 0>>,
                ext_line2_end |-> <<0, 0>>,
                layer |-> 0]
    IN  [dim |-> dim,
         sys |-> System(Append(sys.dimensions, dim), sys.occupied_regions)]

\* real_dims.get(key, default) for a dict given as a function on its keys
Get(real_dims, key, default) ==
    IF key \in DOMAIN real_dims THEN real_dims[key] ELSE default

\* auto_dimension_view, the chain on view.view_type: the values written on
\* the horizontal and on the vertical dimension of an orthographic view.
\* A variant of DimensionValues that labels the vertical extent of the top
\* and bottom views with the model's height.
DimensionValuesHeightOnTop(vt, real_dims, view_width, view_height) ==
    [h_value |->
        IF vt \in {"left", "right"} THEN Get(real_dims, "depth", view_width)
        ELSE Get(real_dims, "width", view_width),
     v_value |-> Get(real_dims, "height", view_height)]

DimensionValues(vt, real_dims, view_width, view_height) ==
    [h_value |->
        CASE vt = "front" -> Get(real_dims, "width", view_width)
          [] vt = "back" -> Get(real_dims, "width", view_width)
          [] vt = "top" -> Get(real_dims, "width", view_width)
          [] vt = "bottom" -> Get(real_dims, "width", view_width)
          [] vt \in {"left", "right"} -> Get(real_dims, "depth", view_width),
     v_value |->
        CASE vt = "front" -> Get(real_dims, "height", view_height)
          [] vt = "back" -> Get(real_dims, "height", view_height)
          [] vt = "top" -> Get(real_dims, "depth", view_height)
          [] vt = "bottom" -> Get(real_dims, "depth", view_height)
          [] vt \in {"left", "right"} -> Get(real_dims, "height", view_height)]

\* A variant of PlaceBoth that places the vertical dimension first.
PlaceVerticalFirst(sys, bounds, values) ==
    LET min_x == bounds[1]
        min_y == bounds[2]
        max_x == bounds[3]
        max_y == bounds[4]
        offset == (Max2(max_x - min_x, max_y - min_y) * 8) \div 100
        v == create_vertical_dimension(sys, max_x, min_y, max_x, max_y,
                                       values.v_value, offset)
        h == create_horizontal_dimension(v.sys, min_x, min_y, max_x, min_y,
                                         values.h_value, offset)
    IN  [ret |-> h.sys.dimensions, sys |-> h.sys, calls |-> 2]

\* auto_dimension_view, from the offset to the return: the horizontal
\* dimension below the view, then the vertical one to its right;
\* offset = max(view_width, view_height) * 0.08.
PlaceBoth(sys, bounds, values) ==
    LET min_x == bounds[1]
        min_y == bounds[2]
        max_x == bounds[3]
        max_y == bounds[4]
        offset == (Max2(max_x - min_x, max_y - min_y) * 8) \div 100
        h == create_horizontal_dimension(sys, min_x, min_y, max_x, min_y,
                                         values.h_value, offset)
        v == create_vertical_dimension(h.sys, max_x, min_y, max_x, max_y,
                                       values.v_value, offset)
    IN  [ret |-> v.sys.dimensions, sys |-> v.sys, calls |-> 2]

\* A variant of auto_dimension_view that returns early on a view without
\* edges before clearing, handing back the list it holds.
AutoDimensionKeepsOnEmpty(sys, view, real_dims) ==
    LET cleared == EmptySystem
        view_width == view.bounds[3] - view.bounds[1]
        view_height == view.bounds[4] - view.bounds[2]
    IN  IF Len(view.edges) = 0
        THEN [ret |-> sys.dimensions, sys |-> sys, calls |-> 0]
        ELSE IF view_width <= 0 \/ view_height <= 0
        THEN [ret |-> <<>>, sys |-> cleared, calls |-> 0]
        ELSE IF view.view_type \notin OrthoViews
        THEN [ret |-> <<>>, sys |-> cleared, calls |-> 0]
        ELSE PlaceBoth(cleared, view.bounds,
                       DimensionValues(view.view_type, real_dims,
                                       view_width, view_height))

\* DimensionSystem.auto_dimension_view: the list returned, the system after
\* the call and the number of create_* calls made.  The system is cleared
\* first, whatever the view.
auto_dimension_view(sys, view, real_dims) ==
    LET cleared == EmptySystem
        view_width == view.bounds[3] - view.bounds[1]
        view_height == view.bounds[4] - view.bounds[2]
    IN  IF Len(view.edges) = 0
        THEN [ret |-> <<>>, sys |-> cleared, calls |-> 0]
        ELSE IF view_width <= 0 \/ view_height <= 0
        THEN [ret |-> <<>>, sys |-> cleared, calls |-> 0]
        ELSE IF view.view_type \notin OrthoViews
        THEN [ret |-> <<>>, sys |-> cleared, calls |-> 0]
        ELSE PlaceBoth(cleared, view.bounds,
                       DimensionValues(view.view_type, real_dims,
                                       view_width, view_height))

\* TechnicalDrawingWidget.set_views: one fresh DimensionSystem per view
\* that is not isometric, auto-dimensioned; the dict is keyed by view type.
set_views(views, real_dimensions) ==
    [vt \in (DOMAIN views) \ {"isometric"} |->
        auto_dimension_view(EmptySystem, views[vt], real_dimensions).sys]

-----------------------------------------------------------------------------
(* The dimension system: the state machine *)

\* At most this many dimensions are created between two clear() calls.
MaxDims == 3

\* Arguments of the create_* calls, in model units: <<x1, x2, offset>> of
\* horizontal dimensions on the line y = 0, <<y1, y2>> of vertical ones on
\* the line x = 30, and <<angle1, angle2>> in degrees.
HArgs == { <<0, 10, 10>>, <<40, 30, 10>>, <<0, 10, 18>> }
VArgs == { <<0, 10>>, <<20, 10>> }
AngleArgs == { <<10, 350>>, <<350, 10>>, <<0, 400>> }
DimValue == 25 * Unit

\* The views handed to auto_dimension_view and set_views are views that
\* project_view returns, with the extents of the mesh they come from.
EngineOf(m) == ProjectionEngine(m.vertices, m.faces, m.edges)
DimMeshes ==
    { Loaded(BoxVertices(50, 30, 20), CubeFaces),
      Loaded(BoxVertices(100, 80, 70), CubeFaces),
      Loaded(TriVertices, << <<0, 1, 2>> >>),
      Mesh(TriVertices, << <<0, 1, 2>> >>, <<>>),
      Mesh(TriVertices, <<>>, << <<4, 5>> >>) }
WidgetMeshes ==
    { Loaded(BoxVertices(50, 30, 20), CubeFaces),
      Loaded(TriVertices, << <<0, 1, 2>> >>) }
ViewsOf(m) == [vt \in ViewType |-> project_view(EngineOf(m), vt)]
ViewInputs ==
    { [view |-> ViewsOf(m)[vt], dims |-> get_bounding_dimensions(EngineOf(m))] :
        m \in DimMeshes, vt \in ViewType }

\* real_dims as the caller may pass it: complete, or with keys missing
KeySets == { {"width", "height", "depth"}, {"width"} }
Restrict(f, keys) == [k \in keys |-> f[k]]

InitDim ==
    /\ dimensions = <<>>
    /\ occupied_regions = <<>>
    /\ ret = <<>>
    /\ last = [op |-> "__init__"]
    /\ linear_calls = 0
    /\ dimension_systems = <<>>

\* DimensionSystem.clear
Clear ==
    /\ dimensions' = <<>>
    /\ occupied_regions' = <<>>
    /\ ret' = <<>>
    /\ last' = [op |-> "clear"]
    /\ linear_calls' = 0
    /\ UNCHANGED dimension_systems
    /\ UNCHANGED notDimVars

CreateHorizontal(x1, y1, x2, y2, value, offset) ==
    /\ Len(dimensions) < MaxDims
    /\ LET r == create_horizontal_dimension(
                    System(dimensions, occupied_regions),
                    x1, y1, x2, y2, value, offset)
       IN  /\ dimensions' = r.sys.dimensions
           /\ occupied_regions' = r.sys.occupied_regions
           /\ ret' = <<r.dim>>
    /\ last' = [op |-> "create_horizontal_dimension", offset |-> offset]
    /\ linear_calls' = linear_calls + 1
    /\ UNCHANGED dimension_systems
    /\ UNCHANGED notDimVars

CreateVertical(x1, y1, x2, y2, value, offset) ==
    /\ Len(dimensions) < MaxDims
    /\ LET r == create_vertical_dimension(
                    System(dimensions, occupied_regions),
                    x1, y1, x2, y2, value, offset)
       IN  /\ dimensions' = r.sys.dimensions
           /\ occupied_regions' = r.sys.occupied_regions
           /\ ret' = <<r.dim>>
    /\ last' = [op |-> "create_vertical_dimension", offset |-> offset]
    /\ linear_calls' = linear_calls + 1
    /\ UNCHANGED dimension_systems
    /\ UNCHANGED notDimVars

CreateAngle(angle1, angle2) ==
    /\ Len(dimensions) < MaxDims
    /\ LET r == create_angle_dimension(
                    System(dimensions, occupied_regions),
                    0, 0, angle1, angle2, DefaultRadius * Unit)
       IN  /\ dimensions' = r.sys.dimensions
           /\ occupied_regions' = r.sys.occupied_regions
           /\ ret' = <<r.dim>>
    /\ last' = [op |-> "create_angle_dimension",
                angle1 |-> angle1, angle2 |-> angle2]
    /\ UNCHANGED <<linear_calls, dimension_systems>>
    /\ UNCHANGED notDimVars

AutoDimensionView(view, real_dims) ==
    /\ LET r == auto_dimension_view(System(dimensions, occupied_regions),
                                    view, real_dims)
       IN  /\ dimensions' = r.sys.dimensions
           /\ occupied_regions' = r.sys.occupied_regions
           /\ ret' = r.ret
           /\ linear_calls' = r.calls
    /\ last' = [op |-> "auto_dimension_view", view |-> view,
                real_dims |-> real_dims, held |-> Len(dimensions)]
    /\ UNCHANGED dimension_systems
    /\ UNCHANGED notDimVars

SetViews(views, real_dimensions) ==
    /\ dimension_systems' = set_views(views, real_dimensions)
    /\ UNCHANGED <<dimensions, occupied_regions, ret, last, linear_calls>>
    /\ UNCHANGED notDimVars

NextDim ==
    \/ Clear
    \/ \E a \in HArgs :
          CreateHorizontal(a[1] * Unit, 0, a[2] * Unit, 0, DimValue, a[3] * Unit)
    \/ \E a \in VArgs :
          CreateVertical(30 * Unit, a[1] * Unit, 30 * Unit, a[2] * Unit,
                         DimValue, 10 * Unit)
    \/ \E a \in AngleArgs : CreateAngle(a[1], a[2])
    \/ \E vi \in ViewInputs, keys \in KeySets :
          AutoDimensionView(vi.view, Restrict(vi.dims, keys))
    \/ \E m \in WidgetMeshes :
          SetViews(ViewsOf(m), get_bounding_dimensions(EngineOf(m)))

-----------------------------------------------------------------------------
(* core/mesh_simplifier.py *)

\* MeshSimplifier.__init__: min_edge_length = 0.01, in hundredths of a unit
min_edge_length == 1

\* A trimesh.Trimesh: the object (by name), its vertices and its faces.
Trimesh(id, vertices, faces) ==
    [id |-> id, vertices |-> vertices, faces |-> faces]
NoMesh == Trimesh("none", <<>>, <<>>)

\* mesh.simplify_quadric_decimation(target_faces) is library code: it
\* raises, or it returns a new mesh, here one with all the faces or with
\* the last face gone.
DecimationOutcomes(m) ==
    { [raises |-> TRUE, mesh |-> NoMesh],
      [raises |-> FALSE, mesh |-> Trimesh("decimated", m.vertices, m.faces)],
      [raises |-> FALSE,
       mesh |-> Trimesh("decimated", m.vertices,
                        SubSeq(m.faces, 1, Len(m.faces) - 1))] }

\* A variant of _decimate_mesh without the except clause's fallback: after
\* an error there is no mesh to go on with.
DecimateWithoutFallback(m, library) == library.mesh

\* MeshSimplifier._decimate_mesh: the try and the bare except
_decimate_mesh(m, library) ==
    IF library.raises THEN m ELSE library.mesh

\* MeshSimplifier._compute_face_normals
_compute_face_normals(vertices, faces) ==
    [f \in 1..Len(faces) |-> FaceNormal(vertices, faces[f])]

\* MeshSimplifier._extract_feature_edges
_extract_feature_edges(vertices, faces, normals) ==
    LET edge_to_faces == EdgeMapLoop(faces)
        Feature(e) ==
            IF Len(e.faces) = 2
            THEN AngleExceedsThreshold(normals[e.faces[1] + 1],
                                       normals[e.faces[2] + 1])
            ELSE Len(e.faces) = 1
        feature_edges == SelectSeq(edge_to_faces, Feature)
    IN  [k \in 1..Len(feature_edges) |-> feature_edges[k].key]

\* MeshSimplifier._extract_boundary_edges: the keys counted once
_extract_boundary_edges(faces) ==
    LET edge_count == EdgeMapLoop(faces)
        boundary_edges == SelectSeq(edge_count, LAMBDA e : Len(e.faces) = 1)
    IN  [k \in 1..Len(boundary_edges) |-> boundary_edges[k].key]

\* MeshSimplifier._combine_edges.  np.array(list(edges_set)) has the order
\* of the hash table; from here on the model keeps the edges as a set.
_combine_edges(edges1, edges2) ==
    IF Len(edges1) = 0 THEN Range(edges2)
    ELSE IF Len(edges2) = 0 THEN Range(edges1)
    ELSE Range(edges1) \cup Range(edges2)

\* MeshSimplifier._filter_small_edges: length >= self.min_edge_length, on
\* the squares; vertex coordinates are whole units.
_filter_small_edges(vertices, edges) ==
    { e \in edges :
        LET d == Vec(At(vertices, e[1]), At(vertices, e[2]))
        IN  Dot(d, d) * 100 * 100 >= min_edge_length * min_edge_length }

-----------------------------------------------------------------------------
(* MeshSimplifier.simplify and cancel, and the loader: the state machine *)

\* The six stages of simplify(), numbered as in its comments: decimate,
\* normals, feature edges, boundary edges, combine, filter.
Stages == 1..6
\* The stages followed by `if self.should_cancel: raise`.
PolledAfter == 1..4

\* Where a simplify() call stands: not called, at a poll of the flag after
\* stage k (0: the poll before the first stage), about to start stage k,
\* inside stage k, or over.
Pc(where, k) == [at |-> where, stage |-> k]

\* The locals of simplify(), and what the decimation library did in this
\* call: "not called", "raised" or "returned".
NoWork ==
    [simplified_mesh |-> NoMesh, face_normals |-> <<>>,
     feature_edges |-> <<>>, silhouette_edges |-> <<>>, all_edges |-> {},
     library |-> "not called"]
NoOutcome == [kind |-> "none"]

\* The meshes handed to simplify() and to the loader.
SimpMeshes ==
    { Trimesh("original", TriVertices, << <<0, 1, 2>> >>),
      Trimesh("original", TriVertices, << <<0, 1, 2>>, <<0, 3, 1>> >>),
      Trimesh("original", TriVertices,
              << <<0, 2, 1>>, <<0, 1, 3>>, <<0, 3, 2>>, <<1, 2, 3>> >>),
      Trimesh("original", BoxVertices(1, 1, 1), CubeFaces),
      \* two coplanar faces, and a face with a repeated vertex beside a
      \* proper one
      Trimesh("original", TriVertices, << <<0, 1, 2>>, <<1, 4, 2>> >>),
      Trimesh("original", TriVertices, << <<0, 1, 1>>, <<0, 1, 2>> >>) }

InitSimp ==
    /\ should_cancel = FALSE
    /\ simplify_pc = Pc("idle", 0)
    /\ mesh = NoMesh
    /\ work = NoWork
    /\ started = <<>>
    /\ outcome = NoOutcome
    /\ cancel_at = Pc("never", 0)
    /\ decimations = 0
    /\ mesh_data = [mesh |-> NoMesh, edges |-> <<>>]

\* MeshSimplifier.cancel, from any thread at any moment
Cancel ==
    /\ should_cancel' = TRUE
    /\ cancel_at' = IF should_cancel THEN cancel_at ELSE simplify_pc
    /\ UNCHANGED <<simplify_pc, mesh, work, started, outcome, decimations,
                   mesh_data>>
    /\ UNCHANGED notSimpVars

\* simplify(mesh) is called: self.should_cancel = False, then the first
\* progress signal.
SimplifyCall(m) ==
    /\ simplify_pc.at \in {"idle", "done"}
    /\ should_cancel' = FALSE
    /\ simplify_pc' = Pc("poll", 0)
    /\ mesh' = m
    /\ work' = NoWork
    /\ started' = <<>>
    /\ outcome' = NoOutcome
    /\ cancel_at' = Pc("never", 0)
    /\ decimations' = 0
    /\ UNCHANGED mesh_data
    /\ UNCHANGED notSimpVars

\* if self.should_cancel: raise Exception("Cancelado")
PollCancel ==
    /\ simplify_pc.at = "poll"
    /\ IF should_cancel
       THEN /\ outcome' = [kind |-> "raised", message |-> "Cancelado"]
            /\ simplify_pc' = Pc("done", simplify_pc.stage)
       ELSE /\ outcome' = outcome
            /\ simplify_pc' = Pc("start", simplify_pc.stage + 1)
    /\ UNCHANGED <<should_cancel, mesh, work, started, cancel_at,
                   decimations, mesh_data>>
    /\ UNCHANGED notSimpVars

\* The progress signal of a stage and the call that starts it.
StartStage ==
    /\ simplify_pc.at = "start"
    /\ started' = Append(started, simplify_pc.stage)
    /\ simplify_pc' = Pc("in", simplify_pc.stage)
    /\ decimations' = IF simplify_pc.stage = 1 THEN decimations + 1
                      ELSE decimations
    /\ UNCHANGED <<should_cancel, mesh, work, outcome, cancel_at, mesh_data>>
    /\ UNCHANGED notSimpVars

\* The locals of simplify() after stage k has returned.
StageResult(k, library) ==
    LET sm == work.simplified_mesh
    IN  CASE k = 1 ->
               [work EXCEPT !.simplified_mesh = _decimate_mesh(mesh, library),
                            !.library = IF library.raises THEN "raised"
                                        ELSE "returned"]
          [] k = 2 ->
               [work EXCEPT !.face_normals =
                    _compute_face_normals(sm.vertices, sm.faces)]
          [] k = 3 ->
               [work EXCEPT !.feature_edges =
                    _extract_feature_edges(sm.vertices, sm.faces,
                                           work.face_normals)]
          [] k = 4 ->
               [work EXCEPT !.silhouette_edges =
                    _extract_boundary_edges(sm.faces)]
          [] k = 5 ->
               [work EXCEPT !.all_edges =
                    _combine_edges(work.feature_edges, work.silhouette_edges)]
          [] k = 6 ->
               [work EXCEPT !.all_edges =
                    _filter_small_edges(sm.vertices, work.all_edges)]

\* return SimplifiedMesh(...)
SimplifiedMesh(w) ==
    [kind |-> "SimplifiedMesh",
     vertices |-> w.simplified_mesh.vertices,
     faces |-> w.simplified_mesh.faces,
     edges |-> w.all_edges,
     feature_edges |-> w.feature_edges,
     silhouette_edges |-> w.silhouette_edges,
     face_normals |-> w.face_normals]

\* Stage k returns; simplify() goes on to the poll that follows it, to the
\* next stage where no poll follows, or returns after the last stage.
FinishStage(library) ==
    /\ simplify_pc.at = "in"
    \* only the decimation calls the library
    /\ simplify_pc.stage = 1 \/ library.raises
    /\ LET k == simplify_pc.stage
           w == StageResult(k, library)
       IN  /\ work' = w
           /\ simplify_pc' = IF k \in PolledAfter THEN Pc("poll", k)
                             ELSE IF k < 6 THEN Pc("start", k + 1)
                             ELSE Pc("done", k)
           /\ outcome' = IF k = 6 THEN SimplifiedMesh(w) ELSE outcome
    /\ UNCHANGED <<should_cancel, mesh, started, cancel_at, decimations,
                   mesh_data>>
    /\ UNCHANGED notSimpVars

\* STLLoader.load of the same file: the edges of the feature extraction
LoaderLoad(m) ==
    /\ mesh_data' = [mesh |-> m,
                     edges |-> _simplify_mesh_for_drawing(m.vertices, m.faces)]
    /\ UNCHANGED <<should_cancel, simplify_pc, mesh, work, started, outcome,
                   cancel_at, decimations>>
    /\ UNCHANGED notSimpVars

\* core/progress_tracker.py.  `run` tells what the operation that uses the
\* tracker did: "none" before start(), "started", "checked" once
\* check_cancelled() has returned, "raised" once it has raised
\* CancelledException.
NoTracker == [cancelled |-> FALSE, run |-> "none"]

InitTrack == tracker = NoTracker

\* ProgressTracker.start
TrackerStart ==
    /\ tracker' = [cancelled |-> FALSE, run |-> "started"]
    /\ UNCHANGED notTrackVars

\* ProgressTracker.cancel, from any thread at any moment
TrackerCancel ==
    /\ tracker' = [tracker EXCEPT !.cancelled = TRUE]
    /\ UNCHANGED notTrackVars

\* ProgressTracker.check_cancelled, in the operation that was started
check_cancelled ==
    /\ tracker.run \in {"started", "checked"}
    /\ tracker' = [tracker EXCEPT !.run = IF tracker.cancelled THEN "raised"
                                          ELSE "checked"]
    /\ UNCHANGED notTrackVars

NextSimp ==
    \/ Cancel
    \/ \E m \in SimpMeshes : SimplifyCall(m)
    \/ PollCancel
    \/ StartStage
    \/ \E library \in DecimationOutcomes(mesh) : FinishStage(library)
    \/ \E m \in SimpMeshes : LoaderLoad(m)
    \/ TrackerStart
    \/ TrackerCancel
    \/ check_cancelled

-----------------------------------------------------------------------------
(* gui/drawing_preview_window.py: the preview window and its worker thread *)

\* The order in which ProjectionWorker.run generates the views.
view_types == <<"front", "back", "top", "bottom", "left", "right", "isometric">>

\* The boxes of "Vistas a Exportar" as _setup_ui leaves them.
CheckedAtStart == {"front", "top", "right", "left", "isometric"}

\* The statements of ProjectionWorker.run, one signal emission each:
\* 0 and 1 emit the progress values 5 and 10 (1 also builds the engine),
\* 2..8 project one view each, 9..11 emit 85, 95 and 100, 12 emits
\* `finished`, and at 13 run() returns.
EmitFinished == 12
RunReturns == 13
\* A scale on which the views alone fill the bar.
ProgressOfViewsAlone(pc) ==
    CASE pc = 0 -> 5
      [] pc = 1 -> 10
      [] pc \in 2..8 -> 15 + ((pc - 2) * 100) \div 7
      [] pc = 9 -> 85
      [] pc = 10 -> 95
      [] pc = 11 -> 100
Progress(pc) ==
    CASE pc = 0 -> 5
      [] pc = 1 -> 10
      [] pc \in 2..8 -> 15 + ((pc - 2) * 70) \div 7
      [] pc = 9 -> 85
      [] pc = 10 -> 95
      [] pc = 11 -> 100

NoWindow == [state |-> "none"]
NoWorker == [state |-> "none"]
NoWidget == [set_views_calls |-> 0, views |-> <<>>, real_dimensions |-> <<>>,
             dimension_systems |-> <<>>]

\* QThread.isRunning
isRunning(w) == w.state = "running"

\* The meshes a preview window is opened on; the last one makes the
\* ProjectionEngine constructor raise in the worker.
WindowMeshes ==
    { Loaded(BoxVertices(50, 30, 20), CubeFaces),
      Loaded(TriVertices, << <<0, 1, 2>> >>),
      Mesh(TriVertices, << <<0, 1, 6>> >>, << <<0, 1>> >>) }

\* The check boxes the model's user clicks, and how many set_views calls
\* the model follows.
Toggled == {"front", "back"}
MaxSetViews == 2

InitWin ==
    /\ window = NoWindow
    /\ worker = NoWorker
    /\ events = <<>>
    /\ drawing_widget = NoWidget

\* DrawingPreviewWindow.__init__ with _generate_projections_with_progress:
\* the dialog is shown and the worker thread started.  `canceled` records
\* that _on_projection_canceled has run.
NewDrawingPreviewWindow(m) ==
    /\ window = NoWindow
    /\ window' = [state |-> "open", mesh_data |-> m, views |-> <<>>,
                  checked |-> CheckedAtStart, progress_dialog |-> "open",
                  value |-> 0, canceled |-> FALSE]
    /\ worker' = [state |-> "running", mesh_data |-> m, pc |-> 0,
                  views |-> <<>>, real_dims |-> <<>>, emitted |-> <<>>]
    /\ events' = <<>>
    /\ drawing_widget' = NoWidget
    /\ UNCHANGED notWinVars

\* One statement of ProjectionWorker.run, in the worker thread.  An emitted
\* signal is queued for the GUI thread, the slots living there.
WorkerStep ==
    /\ isRunning(worker)
    /\ LET pc == worker.pc
           projection_engine == EngineOf(worker.mesh_data)
           progress == [signal |-> "progress", value |-> Progress(pc)]
           \* the signals this statement emits, and the thread after it
           step ==
             CASE pc = 1 /\ projection_engine.status # "ok" ->
                    \* the constructor raises: except, error.emit, return
                    [emits |-> <<progress,
                                 [signal |-> "error",
                                  error_msg |-> projection_engine.status]>>,
                     worker |-> [worker EXCEPT !.state = "finished"]]
               [] pc \in 2..8 ->
                    LET view_type == view_types[pc - 1]
                        view == project_view(projection_engine, view_type)
                    IN  [emits |-> <<progress>>,
                         worker |->
                            [worker EXCEPT
                               !.pc = pc + 1,
                               !.views =
                                  [vt \in (DOMAIN worker.views)
                                            \cup {view_type} |->
                                      IF vt = view_type THEN view
                                      ELSE worker.views[vt]]]]
               [] pc = 9 ->
                    [emits |-> <<progress>>,
                     worker |->
                        [worker EXCEPT
                           !.pc = pc + 1,
                           !.real_dims =
                              get_bounding_dimensions(projection_engine)]]
               [] pc = EmitFinished ->
                    [emits |-> <<[signal |-> "finished",
                                  views |-> worker.views,
                                  real_dims |-> worker.real_dims]>>,
                     worker |-> [worker EXCEPT !.pc = pc + 1]]
               [] pc = RunReturns ->
                    [emits |-> <<>>,
                     worker |-> [worker EXCEPT !.state = "finished"]]
               [] OTHER ->
                    [emits |-> <<progress>>,
                     worker |-> [worker EXCEPT !.pc = pc + 1]]
       IN  /\ events' = events \o step.emits
           /\ worker' = [step.worker EXCEPT !.emitted = @ \o step.emits]
    /\ UNCHANGED <<window, drawing_widget>>
    /\ UNCHANGED notWinVars

\* DrawingPreviewWindow._get_filtered_views
_get_filtered_views(checked, views) ==
    [vt \in checked \cap DOMAIN views |-> views[vt]]

\* TechnicalDrawingWidget.set_views, called on the window's widget
WidgetSetViews(views, real_dimensions) ==
    [set_views_calls |-> drawing_widget.set_views_calls + 1,
     views |-> views,
     real_dimensions |-> real_dimensions,
     dimension_systems |-> set_views(views, real_dimensions)]

\* DrawingPreviewWindow._on_projection_progress
_on_projection_progress(e) ==
    /\ window' = [window EXCEPT !.value = e.value]
    /\ UNCHANGED <<worker, drawing_widget>>

\* DrawingPreviewWindow._on_projections_finished
_on_projections_finished(e) ==
    /\ window' = [window EXCEPT !.views = e.views, !.value = 100,
                                !.progress_dialog = "closed"]
    /\ drawing_widget' =
          WidgetSetViews(_get_filtered_views(window.checked, e.views),
                         e.real_dims)
    /\ UNCHANGED worker

\* DrawingPreviewWindow._on_projection_error
_on_projection_error(e) ==
    /\ window' = [window EXCEPT
                    !.progress_dialog = "closed",
                    !.state = IF DOMAIN window.views = {} THEN "closed" ELSE @]
    /\ UNCHANGED <<worker, drawing_widget>>

\* The GUI thread's event loop delivers the oldest queued signal to its slot.
Deliver ==
    /\ events # <<>>
    /\ LET e == Head(events)
       IN  CASE e.signal = "progress" -> _on_projection_progress(e)
             [] e.signal = "finished" -> _on_projections_finished(e)
             [] e.signal = "error" -> _on_projection_error(e)
    /\ events' = Tail(events)
    /\ UNCHANGED notWinVars

\* DrawingPreviewWindow._on_projection_canceled: the user presses "Cancelar"
\* in the progress dialog.  terminate() stops the thread where it stands.
_on_projection_canceled ==
    /\ window # NoWindow
    /\ window.progress_dialog = "open"
    /\ IF isRunning(worker)
       THEN /\ worker' = [worker EXCEPT !.state = "terminated"]
            /\ window' = [window EXCEPT
                            !.canceled = TRUE,
                            !.progress_dialog = "closed",
                            !.state = IF DOMAIN window.views = {} THEN "closed"
                                      ELSE @]
       ELSE /\ worker' = worker
            /\ window' = [window EXCEPT !.canceled = TRUE,
                                        !.progress_dialog = "closed"]
    /\ UNCHANGED <<events, drawing_widget>>
    /\ UNCHANGED notWinVars

\* DrawingPreviewWindow._on_view_toggle: the user clicks a check box; the
\* modal progress dialog keeps the window's controls out of reach.
_on_view_toggle(vt) ==
    /\ window # NoWindow
    /\ window.state = "open"
    /\ window.progress_dialog = "closed"
    /\ LET checked == IF vt \in window.checked THEN window.checked \ {vt}
                      ELSE window.checked \cup {vt}
       IN  /\ window' = [window EXCEPT !.checked = checked]
           /\ drawing_widget' =
                 IF DOMAIN window.views = {} THEN drawing_widget
                 ELSE WidgetSetViews(
                          _get_filtered_views(checked, window.views),
                          drawing_widget.real_dimensions)
    /\ drawing_widget.set_views_calls < MaxSetViews
    /\ UNCHANGED <<worker, events>>
    /\ UNCHANGED notWinVars

\* DrawingPreviewWindow.closeEvent: the user closes the window.
closeEvent ==
    /\ window # NoWindow
    /\ window.state = "open"
    /\ window.progress_dialog = "closed"
    /\ window' = [window EXCEPT !.state = "closed"]
    /\ worker' = IF isRunning(worker)
                 THEN [worker EXCEPT !.state = "terminated"]
                 ELSE worker
    /\ UNCHANGED <<events, drawing_widget>>
    /\ UNCHANGED notWinVars

\* gui/main_window.py: the STLLoaderWorker thread.  What trimesh.load finds
\* at the path: no readable file, a scene without geometry, or a mesh.
LoaderFiles ==
    { [kind |-> "unreadable"],
      [kind |-> "empty scene"],
      [kind |-> "mesh", vertices |-> TriVertices,
       faces |-> << <<0, 1, 2>>, <<0, 3, 1>> >>] }

\* STLLoader.load as run() sees it: it raises or returns a MeshData.
LoaderLoadOutcome(file, simplify) ==
    CASE file.kind = "unreadable" ->
           [raises |-> TRUE, message |-> "trimesh.load"]
      [] file.kind = "empty scene" ->
           [raises |-> TRUE, message |-> "Arquivo STL vazio ou inválido"]
      [] OTHER ->
           [raises |-> FALSE,
            mesh_data |-> IF simplify THEN Loaded(file.vertices, file.faces)
                          ELSE LoadedAllEdges(file.vertices, file.faces)]

NoLoaderWorker == [state |-> "none"]
InitLoad == loader_worker = NoLoaderWorker

\* STLLoaderWorker(filepath, simplify) and start()
NewSTLLoaderWorker(file, simplify) ==
    /\ ~isRunning(loader_worker)
    /\ loader_worker' = [state |-> "running", file |-> file,
                         simplify |-> simplify, pc |-> 0,
                         mesh_data |-> <<>>, emitted |-> <<>>]
    /\ UNCHANGED notLoadVars

\* The progress STLLoaderWorker.run reports at pc 0..4; at pc 5 it emits
\* `finished`, and at pc 6 run() returns.
LoadProgress(pc) == <<10, 30, 60, 90, 100>>[pc + 1]

\* One statement of STLLoaderWorker.run, in the worker thread.
LoaderWorkerStep ==
    /\ isRunning(loader_worker)
    /\ LET pc == loader_worker.pc
           progress == [signal |-> "progress", value |-> LoadProgress(pc)]
           load == LoaderLoadOutcome(loader_worker.file,
                                     loader_worker.simplify)
       IN  loader_worker' =
             CASE pc = 1 /\ load.raises ->
                    \* except Exception: error.emit, and run() returns
                    [loader_worker EXCEPT
                       !.state = "finished",
                       !.emitted = @ \o <<progress,
                                          [signal |-> "error",
                                           error_msg |-> load.message]>>]
               [] pc = 1 /\ ~load.raises ->
                    [loader_worker EXCEPT
                       !.pc = IF loader_worker.simplify THEN 2 ELSE 3,
                       !.mesh_data = load.mesh_data,
                       !.emitted = Append(@, progress)]
               [] pc = 5 ->
                    [loader_worker EXCEPT
                       !.pc = pc + 1,
                       !.emitted =
                          Append(@, [signal |-> "finished",
                                     mesh_data |-> loader_worker.mesh_data])]
               [] pc = 6 ->
                    [loader_worker EXCEPT !.state = "finished"]
               [] OTHER ->
                    [loader_worker EXCEPT !.pc = pc + 1,
                                          !.emitted = Append(@, progress)]
    /\ UNCHANGED notLoadVars

\* MainWindow._on_load_canceled: the running thread is terminated.
_on_load_canceled ==
    /\ isRunning(loader_worker)
    /\ loader_worker' = [loader_worker EXCEPT !.state = "terminated"]
    /\ UNCHANGED notLoadVars

NextWin ==
    \/ \E m \in WindowMeshes : NewDrawingPreviewWindow(m)
    \/ WorkerStep
    \/ Deliver
    \/ _on_projection_canceled
    \/ \E vt \in Toggled : _on_view_toggle(vt)
    \/ closeEvent
    \/ \E file \in LoaderFiles, simplify \in BOOLEAN :
          NewSTLLoaderWorker(file, simplify)
    \/ LoaderWorkerStep
    \/ _on_load_canceled

-----------------------------------------------------------------------------
(* core/feature_detector.py: circle detection *)

\* The detector's 2D coordinates are whole thousandths of a model unit.
Milli == 1000

\* FeatureDetector.tolerance, 0.01, in thousandths of a unit and as the
\* divisor of the relative test
tolerance == 10
ToleranceInverse == 100

\* The least number of segments and of points of a circle candidate
MinChainLength == 8
MinPoints == 8

RECURSIVE IsqrtBetween(_, _, _)
IsqrtBetween(n, lo, hi) ==
    IF lo >= hi THEN lo
    ELSE LET mid == (lo + hi + 1) \div 2
         IN  IF mid * mid <= n THEN IsqrtBetween(n, mid, hi)
             ELSE IsqrtBetween(n, lo, mid - 1)

\* np.sqrt, rounded down to a whole number
Isqrt(n) == IsqrtBetween(n, 0, Min2(n, 46340))

RECURSIVE SumSeq(_)
SumSeq(s) == IF s = <<>> THEN 0 ELSE Head(s) + SumSeq(Tail(s))

\* np.mean of a non-empty sequence
Mean(s) == SumSeq(s) \div Len(s)

Distance(p, q) ==
    Isqrt((p[1] - q[1]) * (p[1] - q[1]) + (p[2] - q[2]) * (p[2] - q[2]))

\* dist < self.tolerance
Connects(p, q) ==
    /\ Abs(p[1] - q[1]) < tolerance
    /\ Abs(p[2] - q[2]) < tolerance
    /\ (p[1] - q[1]) * (p[1] - q[1]) + (p[2] - q[2]) * (p[2] - q[2])
          < tolerance * tolerance

\* The Edge2D objects the detector reads and builds.
DetectorEdge(start, end, is_visible, is_silhouette) ==
    [start |-> start, end |-> end, is_visible |-> is_visible,
     is_silhouette |-> is_silhouette]

\* A chain grown without turning round the edges met at their far end.
RECURSIVE GrowChainAsGiven(_, _, _, _)
GrowChainAsGiven(edges, used, chain, current_end) ==
    LET connected ==
            {j \in 1..Len(edges) :
                /\ j \notin used
                /\ \/ Connects(edges[j].start, current_end)
                   \/ Connects(edges[j].end, current_end)}
    IN  IF connected = {} THEN [chain |-> chain, used |-> used]
        ELSE LET j == SetMin(connected)
                 edge == edges[j]
             IN  GrowChainAsGiven(edges, used \cup {j}, Append(chain, edge),
                                  IF Connects(edge.start, current_end)
                                  THEN edge.end ELSE edge.start)

\* _find_edge_chains: the `while found` loop that grows one chain by the
\* first unused edge that starts, or else ends, at the chain's end.
RECURSIVE GrowChain(_, _, _, _)
GrowChain(edges, used, chain, current_end) ==
    LET connected ==
            {j \in 1..Len(edges) :
                /\ j \notin used
                /\ \/ Connects(edges[j].start, current_end)
                   \/ Connects(edges[j].end, current_end)}
    IN  IF connected = {} THEN [chain |-> chain, used |-> used]
        ELSE LET j == SetMin(connected)
                 edge == edges[j]
             IN  IF Connects(edge.start, current_end)
                 THEN GrowChain(edges, used \cup {j}, Append(chain, edge),
                                edge.end)
                 ELSE GrowChain(edges, used \cup {j},
                                Append(chain,
                                       DetectorEdge(edge.end, edge.start,
                                                    edge.is_visible, FALSE)),
                                edge.start)

\* _find_edge_chains: the loop over the start edges
RECURSIVE FindChainsLoop(_, _, _, _)
FindChainsLoop(edges, i, used, chains) ==
    IF i > Len(edges) THEN chains
    ELSE IF i \in used THEN FindChainsLoop(edges, i + 1, used, chains)
    ELSE LET grown == GrowChain(edges, used \cup {i}, <<edges[i]>>,
                                edges[i].end)
         IN  FindChainsLoop(edges, i + 1, grown.used,
                            IF Len(grown.chain) >= 3
                            THEN Append(chains, grown.chain)
                            ELSE chains)

\* FeatureDetector._find_edge_chains
_find_edge_chains(edges) == FindChainsLoop(edges, 1, {}, <<>>)

\* _fit_circle_to_chain: the points of a chain
ChainPoints(chain) ==
    [k \in 1..(Len(chain) + 1) |->
        IF k <= Len(chain) THEN chain[k].start ELSE chain[Len(chain)].end]

\* _fit_circle_to_chain: the seed of the fit
center_estimate(points) ==
    << Mean([k \in 1..Len(points) |-> points[k][1]]),
       Mean([k \in 1..Len(points) |-> points[k][2]]) >>
radius_estimate(points) ==
    Mean([k \in 1..Len(points) |->
            Distance(points[k], center_estimate(points))])

\* np.std(residuals(result.x)) < self.tolerance * radius_estimate, squared.
\* The residuals are the distances to the fitted centre less the fitted
\* radius, so their deviation is that of the distances.
ResidualsWithinTolerance(points, x) ==
    LET distances == [k \in 1..Len(points) |->
                        Distance(points[k], <<x[1], x[2]>>)]
        mean == Mean(distances)
        variance == Mean([k \in 1..Len(points) |->
                            (distances[k] - mean) * (distances[k] - mean)])
        bound == radius_estimate(points) \div ToleranceInverse
    IN  variance < bound * bound

\* What scipy's optimize.least_squares may do with the seed x0: raise, or
\* return a result whose x is a point it stopped at and whose `success`
\* says whether it converged.  A seed radius below the lower bound 0.001
\* is infeasible and always raises.  The points it may stop at are given
\* as displacements of the seed centre, with the fitted radius.
Stops == { <<0, 0, 5000>>, <<-384, 0, 5000>>, <<-384, 0, 4000>>,
           <<1500, 0, 5000>> }
LeastSquaresOutcomes(points) ==
    LET c == center_estimate(points)
    IN  {[kind |-> "raises"]} \cup
        IF radius_estimate(points) < 1 THEN {}
        ELSE {[kind |-> "returns", success |-> ok,
               x |-> <<c[1] + d[1], c[2] + d[2], d[3]>>] :
                 ok \in BOOLEAN, d \in Stops}

None == [kind |-> "None"]
Circle2D(center, radius, is_visible) ==
    [kind |-> "Circle2D", center |-> center, radius |-> radius,
     is_visible |-> is_visible]

\* A fit that takes whatever the solver returns for a circle.
FitWithoutResidualTest(chain, library) ==
    LET points == ChainPoints(chain)
    IN  IF Len(points) < MinPoints THEN None
        ELSE IF library.kind = "raises" THEN None
        ELSE Circle2D(<<library.x[1], library.x[2]>>, library.x[3],
                      chain[1].is_visible)

\* FeatureDetector._fit_circle_to_chain, `library` being what least_squares
\* does in this call.  The model's Circle2D leaves is_full_circle out.
_fit_circle_to_chain(chain, library) ==
    LET points == ChainPoints(chain)
    IN  IF Len(points) < MinPoints THEN None
        ELSE IF library.kind = "raises" THEN None
        ELSE IF ResidualsWithinTolerance(points, library.x)
             THEN Circle2D(<<library.x[1], library.x[2]>>, library.x[3],
                           chain[1].is_visible)
             ELSE None

\* What `library` is for a chain too short to be fitted.
NotCalled == [kind |-> "not called"]

\* _detect_circles: one round of the loop over the chains, for chain k.
\* `library` is what the solver does if the chain is fitted.  A circle is
\* listed with the chain it came from.
DetectCirclesRound(circles, chain, k, library) ==
    LET circle == IF Len(chain) >= MinChainLength
                  THEN _fit_circle_to_chain(chain, library)
                  ELSE None
    IN  IF circle # None
        THEN Append(circles, [chain |-> k, circle |-> circle])
        ELSE circles

-----------------------------------------------------------------------------
(* The circle detection: the state machine *)

\* The closed outline through the given points, and the open one.
RECURSIVE Polyline(_)
Polyline(points) ==
    IF Len(points) < 2 THEN <<>>
    ELSE <<DetectorEdge(points[1], points[2], TRUE, FALSE)>>
            \o Polyline(Tail(points))
Closed(points) == Polyline(Append(points, points[1]))

\* Twelve points of the circle of radius 5 about (cx, 0), a straight run of
\* eight segments, and a triangle.
CircleOutline(cx) ==
    Closed([k \in 1..12 |->
        << cx * Milli +
              <<5, 4, 3, 0, -3, -4, -5, -4, -3, 0, 3, 4>>[k] * Milli,
           <<0, 3, 4, 5, 4, 3, 0, -3, -4, -5, -4, -3>>[k] * Milli >>])
StraightRun == Polyline([k \in 1..9 |-> <<k * Milli, 20 * Milli>>])
Triangle ==
    Closed(<< <<0, 40 * Milli>>, <<2 * Milli, 40 * Milli>>,
              <<0, 42 * Milli>> >>)

\* An outline with two of its segments given end first.
Reversed(e) == DetectorEdge(e.end, e.start, e.is_visible, e.is_silhouette)
SomeReversed(edges) ==
    [k \in 1..Len(edges) |-> IF k \in {3, 7} THEN Reversed(edges[k])
                             ELSE edges[k]]


\* The straight run with its fourth segment listed first, the first seven
\* segments of a circle outline, and an outline whose first segment is
\* hidden.
FourthFirst(edges) ==
    <<edges[4]>> \o SubSeq(edges, 1, 3) \o SubSeq(edges, 5, Len(edges))
Arc == SubSeq(CircleOutline(0), 1, 7)
FirstHidden(edges) ==
    [k \in 1..Len(edges) |->
        IF k = 1 THEN DetectorEdge(edges[k].start, edges[k].end, FALSE, FALSE)
        ELSE edges[k]]

DetectorInputs ==
    { <<>>,
      CircleOutline(0),
      SomeReversed(CircleOutline(0)),
      FirstHidden(CircleOutline(0)),
      StraightRun,
      SomeReversed(StraightRun),
      FourthFirst(StraightRun),
      Arc,
      Triangle \o CircleOutline(0),
      CircleOutline(0) \o CircleOutline(20),
      CircleOutline(0) \o StraightRun \o CircleOutline(20) }

NoDetection == [status |-> "none"]

InitDet == detection = NoDetection

\* _detect_circles(edges) is called: the chains are found and the loop is
\* at the first of them.
DetectCirclesCall(edges) ==
    /\ detection.status # "running"
    /\ detection' = [status |-> "running",
                     edges |-> edges,
                     edge_chains |-> _find_edge_chains(edges),
                     library |-> <<>>,
                     circles |-> <<>>]
    /\ UNCHANGED notDetVars

\* One round of the loop, Len(library) rounds being behind: the solver
\* does one of the things it may do with this chain.
DetectCirclesNext ==
    /\ detection.status = "running"
    /\ Len(detection.library) < Len(detection.edge_chains)
    /\ LET k == Len(detection.library) + 1
           chain == detection.edge_chains[k]
       IN  \E library \in IF Len(chain) >= MinChainLength
                          THEN LeastSquaresOutcomes(ChainPoints(chain))
                          ELSE {NotCalled} :
              detection' =
                 [detection EXCEPT
                    !.library = Append(@, library),
                    !.circles = DetectCirclesRound(@, chain, k, library)]
    /\ UNCHANGED notDetVars

\* `return circles`
DetectCirclesReturn ==
    /\ detection.status = "running"
    /\ Len(detection.library) = Len(detection.edge_chains)
    /\ detection' = [detection EXCEPT !.status = "returned"]
    /\ UNCHANGED notDetVars

NextDet ==
    \/ \E edges \in DetectorInputs : DetectCirclesCall(edges)
    \/ DetectCirclesNext
    \/ DetectCirclesReturn

-----------------------------------------------------------------------------
(* Specifications *)

\* The projection state before anything is constructed.
RestProj ==
    /\ input = Mesh(<<>>, <<>>, <<>>)
    /\ engine = [e \in Engines |-> NoEngine]
    /\ analyzer = NoAnalyzer
    /\ result = NoResult
    /\ first = NoResult

\* The dimension system alone; the rest of the state rests.
InitSpecDim ==
    InitDim /\ RestProj /\ InitSimp /\ InitWin /\ InitDet /\ InitTrack /\ InitLoad
SpecDim == InitSpecDim /\ [][NextDim]_vars

\* Topology and projection alone.
Init ==
    InitProj /\ InitDim /\ InitSimp /\ InitWin /\ InitDet /\ InitTrack /\ InitLoad
SpecProj == Init /\ [][NextProj]_vars

\* The simplifier and the loader alone.
InitSpecSimp ==
    InitSimp /\ InitDim /\ RestProj /\ InitWin /\ InitDet /\ InitTrack /\ InitLoad
SpecSimp == InitSpecSimp /\ [][NextSimp]_vars

\* The preview window and its worker thread alone.
InitSpecWin ==
    InitWin /\ InitDim /\ RestProj /\ InitSimp /\ InitDet /\ InitTrack /\ InitLoad
SpecWin == InitSpecWin /\ [][NextWin]_vars

\* The circle detection alone.
InitSpecDet ==
    InitDet /\ InitDim /\ RestProj /\ InitSimp /\ InitWin /\ InitTrack /\ InitLoad
SpecDet == InitSpecDet /\ [][NextDet]_vars

Next == NextDim \/ NextProj \/ NextSimp \/ NextWin \/ NextDet
Spec == Init /\ [][Next]_vars

-----------------------------------------------------------------------------
(* Properties of the dimension system *)

IsLinear(d) == d.dim_type \in {"linear_h", "linear_v"}
LinearDims == SelectSeq(dimensions, IsLinear)

\* The rectangle create_horizontal_dimension hands to _find_free_layer: the
\* dimension line before any layer shift, expanded by the margin.
Candidate(d) ==
    LET y0 == d.dim_line_start[2] + d.layer * LayerStride * Unit
    IN  <<d.dim_line_start[1], y0 - Margin * Unit,
          d.dim_line_end[1], y0 + Margin * Unit>>

Overlap(a, b) == RectHits(a[1], a[2], a[3], a[4], b)

\* Only horizontal dimensions were placed since clear(), and their
\* candidate rectangles overlap one another.
MutuallyOverlappingRun ==
    /\ \A k \in 1..Len(dimensions) : dimensions[k].dim_type = "linear_h"
    /\ \A i, j \in 1..Len(dimensions) :
          Overlap(Candidate(dimensions[i]), Candidate(dimensions[j]))

\* C1: successive horizontal dimensions whose candidate rectangles all
\* mutually overlap get the layers 0, 1, 2, 3, 4, 4, ...: the k-th one
\* (counting from 0) gets layer min(k, max_layers - 1), and all are kept.
C1_LayersCountUp ==
    MutuallyOverlappingRun =>
        /\ Len(dimensions) = linear_calls
        /\ \A k \in 1..Len(dimensions) :
              dimensions[k].layer = Min2(k - 1, max_layers - 1)

\* The dimension line of a linear dimension expanded by the margin across
\* the line.
Footprint(d) ==
    IF d.dim_type = "linear_h"
    THEN <<d.dim_line_start[1], d.dim_line_start[2] - Margin * Unit,
           d.dim_line_end[1], d.dim_line_end[2] + Margin * Unit>>
    ELSE <<d.dim_line_start[1] - Margin * Unit, d.dim_line_start[2],
           d.dim_line_end[1] + Margin * Unit, d.dim_line_end[2]>>

\* Where the dimension line of the dimension just created lies: offset away
\* from the measured points, shifted by LayerStride for each layer.
LineAtShiftedPosition(d, offset) ==
    IF d.dim_type = "linear_h"
    THEN /\ d.dim_line_start[2] =
                Min2(d.point1[2], d.point2[2]) - offset
                    - d.layer * LayerStride * Unit
         /\ d.dim_line_end[2] = d.dim_line_start[2]
    ELSE /\ d.dim_line_start[1] =
                Max2(d.point1[1], d.point2[1]) + offset
                    + d.layer * LayerStride * Unit
         /\ d.dim_line_end[1] = d.dim_line_start[1]

\* C2: every create_horizontal_dimension / create_vertical_dimension call
\* since the last clear() has appended exactly one Dimension and exactly one
\* occupied rectangle, the rectangle being that dimension's line at its
\* layer-shifted position expanded by the 5-unit margin; none is dropped.
C2_OneDimensionOneRegion ==
    /\ Len(LinearDims) = linear_calls
    /\ Len(occupied_regions) = linear_calls
    /\ \A i \in 1..Len(occupied_regions) :
          i <= Len(LinearDims) => occupied_regions[i] = Footprint(LinearDims[i])
    /\ last.op \in {"create_horizontal_dimension", "create_vertical_dimension"}
          => /\ ret = <<dimensions[Len(dimensions)]>>
             /\ IsLinear(ret[1])
             /\ LineAtShiftedPosition(ret[1], last.offset)

\* Three linear dimensions of both kinds, one of them placed after a
\* collision.
C2_Witness ==
    /\ linear_calls = 3
    /\ Len(dimensions) = 3
    /\ \E i \in 1..3 : dimensions[i].dim_type = "linear_v"
    /\ \E i \in 1..3 : dimensions[i].dim_type = "linear_h"
    /\ \E i \in 1..3 : dimensions[i].layer > 0

\* The last call was auto_dimension_view; its view and the extents of the
\* view's bounding rectangle.
AutoCalled == last.op = "auto_dimension_view"
CalledWidth == last.view.bounds[3] - last.view.bounds[1]
CalledHeight == last.view.bounds[4] - last.view.bounds[2]

\* C6: auto_dimension_view on a view whose edge list is empty returns an
\* empty list, for every view type, every real_dims (keys missing or not)
\* and whatever the system held before the call.
C6_EmptyViewNoDimensions ==
    (AutoCalled /\ Len(last.view.edges) = 0) => ret = <<>>

\* An isometric view without edges was handed over with keys missing from
\* real_dims while the system held dimensions.
C6_Witness ==
    /\ AutoCalled
    /\ Len(last.view.edges) = 0
    /\ last.view.view_type = "isometric"
    /\ last.held > 0
    /\ "height" \notin DOMAIN last.real_dims
    /\ ret = <<>>

\* Exactly two dimensions, a horizontal one followed by a vertical one.
HorizontalThenVertical(dims) ==
    /\ Len(dims) = 2
    /\ dims[1].dim_type = "linear_h"
    /\ dims[2].dim_type = "linear_v"

\* C7 as stated: auto_dimension_view on any orthographic view with at least
\* one edge returns exactly a horizontal then a vertical dimension, whatever
\* its bounding rectangle; on an isometric view it returns none, and
\* set_views creates no dimension system for an isometric view.
C7_TwoDimensionsAnyRectangle ==
    /\ (AutoCalled /\ last.view.view_type \in OrthoViews
            /\ Len(last.view.edges) >= 1)
          => HorizontalThenVertical(ret)
    /\ (AutoCalled /\ last.view.view_type = "isometric") => ret = <<>>
    /\ "isometric" \notin DOMAIN dimension_systems

\* C7 amended: auto_dimension_view on an orthographic view with at least one
\* edge and a bounding rectangle of positive width and height returns
\* exactly a horizontal then a vertical dimension; when the rectangle has
\* zero width or zero height it returns none; on an isometric view it
\* returns none, and set_views creates no dimension system for an
\* isometric view.
C7_TwoDimensionsPositiveRectangle ==
    /\ (AutoCalled /\ last.view.view_type \in OrthoViews
            /\ Len(last.view.edges) >= 1
            /\ CalledWidth > 0 /\ CalledHeight > 0)
          => HorizontalThenVertical(ret)
    /\ (AutoCalled /\ last.view.view_type \in OrthoViews
            /\ Len(last.view.edges) >= 1
            /\ (CalledWidth <= 0 \/ CalledHeight <= 0))
          => ret = <<>>
    /\ (AutoCalled /\ last.view.view_type = "isometric") => ret = <<>>
    /\ "isometric" \notin DOMAIN dimension_systems

\* An orthographic view with edges got its two dimensions, and set_views
\* has made the systems of a mesh with a flat view: one system holds two
\* dimensions, another none.
C7_Witness ==
    /\ AutoCalled
    /\ last.view.view_type \in OrthoViews
    /\ Len(last.view.edges) >= 1
    /\ HorizontalThenVertical(ret)
    /\ DOMAIN dimension_systems = OrthoViews
    /\ \E vt \in OrthoViews : Len(dimension_systems[vt].dimensions) = 2
    /\ \E vt \in OrthoViews : Len(dimension_systems[vt].dimensions) = 0

\* C8: create_angle_dimension stores the absolute angular difference wrapped
\* to at most 180 degrees: the value lies in [0, 180] and equals
\* min(d, 360 - d) for d = |angle2 - angle1| mod 360, whatever the sign and
\* the magnitude of the angles.
C8_AngleWrapped ==
    last.op = "create_angle_dimension" =>
        LET d == Abs(last.angle2 - last.angle1) % 360
            value == ret[1].value
        IN  /\ value >= 0
            /\ value <= 180
            /\ value = Min2(d, 360 - d)

\* The model axis (1 = X, 2 = Y, 3 = Z) that project_view lays along the
\* view's horizontal (i = 1) or vertical (i = 2) direction, and the key of
\* its extent in real_dims.
ShownAxis(vt, i) ==
    LET t == VIEW_TRANSFORMS(vt)
    IN  CHOOSE a \in 1..3 : t.rotation[t.project_axes[i] + 1][a] # 0
ExtentKey(a) == <<"width", "height", "depth">>[a]

TheBox == Loaded(BoxVertices(50, 30, 20), CubeFaces)

\* auto_dimension_view was called on an orthographic view with the model's
\* three extents and returned its two dimensions.
AutoDimensioned ==
    /\ AutoCalled
    /\ last.view.view_type \in OrthoViews
    /\ DOMAIN last.real_dims = {"width", "height", "depth"}
    /\ Len(ret) = 2

\* C17: the horizontal and the vertical auto-dimension of an orthographic
\* view carry the model's extents along the axes the view shows
\* horizontally and vertically: (width, height) for front and back,
\* (width, depth) for top and bottom, (depth, height) for left and right;
\* for the box they are the width and the height of the view's bounds.
C17_DimensionsFollowShownAxes ==
    AutoDimensioned =>
        LET vt == last.view.view_type
            h == ret[1].value
            v == ret[2].value
        IN  /\ ret[1].dim_type = "linear_h" /\ ret[2].dim_type = "linear_v"
            /\ h = last.real_dims[ExtentKey(ShownAxis(vt, 1))]
            /\ v = last.real_dims[ExtentKey(ShownAxis(vt, 2))]
            /\ vt \in {"front", "back"} =>
                  h = last.real_dims.width /\ v = last.real_dims.height
            /\ vt \in {"top", "bottom"} =>
                  h = last.real_dims.width /\ v = last.real_dims.depth
            /\ vt \in {"left", "right"} =>
                  h = last.real_dims.depth /\ v = last.real_dims.height
            /\ last.view = ViewsOf(TheBox)[vt] =>
                  h = CalledWidth /\ v = CalledHeight

\* The top view of the 50 x 30 x 20 box was dimensioned: 50 across, 20 up.
C17_Witness ==
    /\ AutoDimensioned
    /\ last.view = ViewsOf(TheBox)["top"]
    /\ ret[1].value = 50 * Unit
    /\ ret[2].value = 20 * Unit
    /\ CalledHeight = 20 * Unit

\* C18: _find_free_layer gives the smallest layer in 0..max_layers-1 at
\* which the candidate, moved that many strides of 8 units away from the
\* geometry, overlaps no occupied region, and max_layers-1 if there is
\* none: a horizontal dimension just placed has the smallest such layer,
\* so one that collides at layer 0 and is free one stride out has layer 1.
C18_SmallestFreeLayer ==
    (last.op = "create_horizontal_dimension" /\ Len(dimensions) > 0) =>
        LET dim == dimensions[Len(dimensions)]
            before == SubSeq(occupied_regions, 1, Len(occupied_regions) - 1)
            base_y == Min2(dim.point1[2], dim.point2[2]) - last.offset
            Free(L) ==
                ~\E r \in 1..Len(before) :
                    RectHits(dim.point1[1],
                             base_y - L * LayerStride * Unit - Margin * Unit,
                             dim.point2[1],
                             base_y - L * LayerStride * Unit + Margin * Unit,
                             before[r])
            free == {L \in 0..(max_layers - 1) : Free(L)}
        IN  dim.layer = IF free = {} THEN max_layers - 1 ELSE SetMin(free)

\* Twice the angular distance, in degrees, between the direction whose
\* doubled angle is `twice` and the ray at `angle`.
TwiceAngularDistance(twice, angle) ==
    LET d == Abs(twice - 2 * angle) % 720
    IN  Min2(d, 720 - d)

\* C21: the dimension line of an angle dimension runs from the vertex along
\* the bisector of the angle it reports: its direction is half of `value`
\* away from the ray at angle1 and from the ray at angle2, so inside the
\* sector of size `value` between them, also when the rays straddle 0/360.
C21_AngleLineBisects ==
    last.op = "create_angle_dimension" =>
        LET dim == ret[1]
            twice == dim.dim_line_end.twice_angle
        IN  /\ dim.dim_line_start = <<0, 0>>
            /\ dim.value <= 180
            /\ TwiceAngularDistance(twice, last.angle1) = dim.value
            /\ TwiceAngularDistance(twice, last.angle2) = dim.value

\* C29: the two dimensions auto_dimension_view makes for an orthographic
\* view of positive width and height are both on layer 0, whatever the
\* size of the view.
C29_BothOnLayerZero ==
    (/\ AutoCalled
     /\ last.view.view_type \in OrthoViews
     /\ Len(ret) = 2)
      => /\ ret[1].layer = 0
         /\ ret[2].layer = 0

\* The same for the views whose offset, 0.08 times the larger side, is
\* more than the half-height 5 of a footprint.
LargeViewOnLayerZero ==
    (/\ AutoCalled
     /\ last.view.view_type \in OrthoViews
     /\ Len(ret) = 2
     /\ 8 * Max2(last.view.width, last.view.height) > 5 * 100 * Unit)
      => /\ ret[1].layer = 0
         /\ ret[2].layer = 0

\* A view with a side longer than 62.5 was dimensioned.
LargeViewDimensioned ==
    /\ AutoCalled
    /\ Len(ret) = 2
    /\ 8 * Max2(last.view.width, last.view.height) > 5 * 100 * Unit

-----------------------------------------------------------------------------
(* Properties of the simplifier and the loader *)

\* C11: when cancel() is called while a stage of simplify() is in progress,
\* whichever of the six stages it is, simplify() starts no stage after that
\* one and returns no SimplifiedMesh.
C11_CancelStopsSimplify ==
    cancel_at.at = "in" =>
        /\ \A k \in Range(started) : k <= cancel_at.stage
        /\ outcome.kind # "SimplifiedMesh"

\* C14: when the quadric decimation raises, _decimate_mesh returns the
\* original mesh object unchanged, the decimation is called once only, and
\* simplify() is aborted by nothing but a cancellation: it runs all six
\* stages and returns a SimplifiedMesh with the original vertices and faces.
C14_DecimationFailureDegrades ==
    work.library = "raised" =>
        /\ work.simplified_mesh = mesh
        /\ decimations = 1
        /\ outcome.kind = "raised" => should_cancel
        /\ simplify_pc.at = "done" =>
              \/ outcome.kind = "raised"
              \/ /\ outcome.kind = "SimplifiedMesh"
                 /\ started = <<1, 2, 3, 4, 5, 6>>
                 /\ outcome.vertices = mesh.vertices
                 /\ outcome.faces = mesh.faces

\* simplify() has returned the cube's SimplifiedMesh after a failed
\* decimation, nobody having cancelled.
C14_Witness ==
    /\ work.library = "raised"
    /\ cancel_at.at = "never"
    /\ outcome.kind = "SimplifiedMesh"
    /\ Len(mesh.faces) = 12
    /\ Len(outcome.faces) = 12
    /\ Cardinality(outcome.edges) = 12

\* The faces a pair of vertices is a side of.
FacesAt(faces, edge) ==
    { f \in 1..Len(faces) :
        \E a, b \in 1..3 :
            a # b /\ faces[f][a] = edge[1] /\ faces[f][b] = edge[2] }

\* The sides of the faces, as sorted pairs.
Sides(faces) ==
    { EdgeKey(faces[f][p[1]], faces[f][p[2]]) :
        f \in 1..Len(faces), p \in { <<1, 2>>, <<2, 3>>, <<3, 1>> } }

\* The edges of one face, and those of two faces whose normals are more than
\* the threshold apart.
BoundaryOrSharp(vertices, faces) ==
    { e \in Sides(faces) :
        \/ Cardinality(FacesAt(faces, e)) = 1
        \/ /\ Cardinality(FacesAt(faces, e)) = 2
           /\ \E f, g \in FacesAt(faces, e) :
                 /\ f # g
                 /\ AngleExceedsThreshold(FaceNormal(vertices, faces[f]),
                                          FaceNormal(vertices, faces[g])) }
Boundary(faces) ==
    { e \in Sides(faces) : Cardinality(FacesAt(faces, e)) = 1 }

\* C15: the feature edges the loader and the simplifier extract are exactly
\* the edges of one face and the edges of two faces whose normals are more
\* than 20 degrees apart; they are the boundary edges alone when no edge of
\* two faces is that sharp, and there are some whenever there is a boundary
\* edge.
C15_FeatureEdges ==
    /\ mesh_data.mesh # NoMesh =>
          LET m == mesh_data.mesh
              extracted == Range(mesh_data.edges)
          IN  /\ extracted = BoundaryOrSharp(m.vertices, m.faces)
              /\ Boundary(m.faces) \subseteq extracted
              /\ (BoundaryOrSharp(m.vertices, m.faces) = Boundary(m.faces))
                    => extracted = Boundary(m.faces)
              /\ Boundary(m.faces) # {} => extracted # {}
    /\ 3 \in Range(started) /\ simplify_pc # Pc("in", 3) =>
          LET m == work.simplified_mesh
          IN  Range(work.feature_edges) = BoundaryOrSharp(m.vertices, m.faces)

\* C30: a cancellation asked for before the run is not lost.  A
\* should_cancel set before simplify() is entered is still set when
\* simplify() stands at its first poll, and the run that follows returns no
\* SimplifiedMesh; a `cancelled` set before start() is still set after
\* start(), and check_cancelled() never returns normally in that run.
C30_CancelBeforeRunKept ==
    [][/\ (/\ should_cancel
           /\ simplify_pc.at = "idle"
           /\ simplify_pc'.at = "poll")
         => should_cancel'
       /\ (/\ tracker.cancelled
           /\ tracker.run = "none"
           /\ tracker'.run = "started")
         => tracker'.cancelled]_vars

\* The simplifier's half and the tracker's half of C30, each alone.
SimplifierKeepsCancel ==
    [][(/\ should_cancel
        /\ simplify_pc.at = "idle"
        /\ simplify_pc'.at = "poll")
         => should_cancel']_vars
TrackerKeepsCancel ==
    [][(/\ tracker.cancelled
        /\ tracker.run = "none"
        /\ tracker'.run = "started")
         => tracker'.cancelled]_vars

-----------------------------------------------------------------------------
(* Properties of the preview window *)

\* C12: once _on_projection_canceled has run, no result is published:
\* self.views is empty and drawing_widget.set_views has not been called,
\* however the cancellation interleaves with the worker's run() and its
\* queued `finished` signal.
C12_NothingPublishedAfterCancel ==
    (window # NoWindow /\ window.canceled) =>
        /\ DOMAIN window.views = {}
        /\ drawing_widget.set_views_calls = 0

\* The places in a run's signals where it reported a percentage, where it
\* reported 100, and where it emitted the signal named.
Reports(emitted) ==
    {i \in 1..Len(emitted) : emitted[i].signal = "progress"}
Hundreds(emitted) == {i \in Reports(emitted) : emitted[i].value = 100}
Emits(emitted, signal) ==
    {i \in 1..Len(emitted) : emitted[i].signal = signal}

\* The percentages of a run never fall and lie within 0..100; `finished`
\* comes after a report of 100; and a run with `error` has neither.
OrderlySignals(emitted) ==
    /\ \A i \in Reports(emitted) : emitted[i].value \in 0..100
    /\ \A i, j \in Reports(emitted) :
          i < j => emitted[i].value <= emitted[j].value
    /\ \A i \in Emits(emitted, "finished") :
          \E j \in Hundreds(emitted) : j < i
    /\ Emits(emitted, "error") # {} =>
          /\ Hundreds(emitted) = {}
          /\ Emits(emitted, "finished") = {}

\* C26: in every run of ProjectionWorker and of STLLoaderWorker the
\* percentages reported never fall and lie within 0..100, 100 is reported
\* only when every stage is behind (all seven views and the dimensions; the
\* loaded mesh), `finished` is emitted only after 100 was reported, and a
\* run that emits `error` emits neither 100 nor `finished`.
C26_ProgressOrderly ==
    /\ worker # NoWorker =>
          /\ OrderlySignals(worker.emitted)
          /\ Hundreds(worker.emitted) # {} =>
                /\ DOMAIN worker.views = Range(view_types)
                /\ worker.real_dims
                      = get_bounding_dimensions(EngineOf(worker.mesh_data))
    /\ loader_worker # NoLoaderWorker =>
          /\ OrderlySignals(loader_worker.emitted)
          /\ Hundreds(loader_worker.emitted) # {} =>
                loader_worker.mesh_data
                    = LoaderLoadOutcome(loader_worker.file,
                                        loader_worker.simplify).mesh_data

\* A run of each worker has emitted `finished`, the loader's with the
\* simplification.
C26_Witness ==
    /\ worker # NoWorker
    /\ Emits(worker.emitted, "finished") # {}
    /\ loader_worker # NoLoaderWorker
    /\ loader_worker.simplify
    /\ Emits(loader_worker.emitted, "finished") # {}

\* A run of each worker has emitted `error`.
BothWorkersFailed ==
    /\ worker # NoWorker
    /\ Emits(worker.emitted, "error") # {}
    /\ loader_worker # NoLoaderWorker
    /\ Emits(loader_worker.emitted, "error") # {}

-----------------------------------------------------------------------------
(* Properties of the circle detection *)

Fitted(k) == Len(detection.edge_chains[k]) >= MinChainLength
FitFailed(k) ==
    \/ detection.library[k].kind = "raises"
    \/ /\ detection.library[k].kind = "returns"
       /\ ~detection.library[k].success
CircleOf(k) ==
    {i \in 1..Len(detection.circles) : detection.circles[i].chain = k}

\* C13: for every chain _detect_circles has fitted: if the solver raised or
\* did not converge there is no circle of that chain, and if the solver
\* converged to an acceptable fit there is that chain's circle, whatever
\* happened to the chains before it; and _detect_circles returns only when
\* every chain has had its round.
C13_FitFailureSkipsChain ==
    detection # NoDetection =>
        /\ detection.status = "returned" =>
              Len(detection.library) = Len(detection.edge_chains)
        /\ \A k \in 1..Len(detection.library) :
              Fitted(k) =>
                 /\ FitFailed(k) => CircleOf(k) = {}
                 /\ (/\ ~FitFailed(k)
                     /\ ResidualsWithinTolerance(
                            ChainPoints(detection.edge_chains[k]),
                            detection.library[k].x))
                       => CircleOf(k) # {}

-----------------------------------------------------------------------------
(* Properties of the topology and the projection *)

\* The faces of the mesh that an edge borders: the faces holding both of its
\* end points, as 0-based face indices.
AdjacentFaces(faces, edge) ==
    { f \in 0..(Len(faces) - 1) :
        /\ edge[1] # edge[2]
        /\ {edge[1], edge[2]} \subseteq Range(faces[f + 1]) }

\* The view returned last, the engine it came from, and for each emitted
\* edge the index of the input edge it was made from.
ResultView == result.view
ResultEngine == engine[result.engine]
ResultSources == valid_mask(Ends(ResultEngine, result.view_type))

\* C3: in every ProjectedView of project_view, an emitted edge with exactly
\* one adjacent face in the mesh has is_silhouette = true, and is_visible
\* tells whether that face is front-facing in the view.
C3_BoundaryEdgeIsSilhouette ==
    result.kind = "view" =>
        \A k \in 1..Len(ResultView.edges) :
            LET adjacent ==
                    AdjacentFaces(ResultEngine.faces,
                                  ResultEngine.edges[ResultSources[k]])
                visibility ==
                    face_visibility(ResultEngine, Rotation(result.view_type))
            IN  Cardinality(adjacent) = 1 =>
                    /\ ResultView.edges[k].is_silhouette
                    /\ \A f \in adjacent :
                          ResultView.edges[k].is_visible = visibility[f + 1]

\* C4: project_view is deterministic and keeps no hidden state: a call
\* returns the view the first call with that orientation returned, on
\* either engine built from the same arrays and whatever was called in
\* between, and every constructed engine still has the vertices, faces,
\* edges, face_normals and edge_to_faces it was constructed with.
C4_Deterministic ==
    /\ \A e \in Engines :
          engine[e].status # "none" =>
              engine[e] = ProjectionEngine(input.vertices, input.faces,
                                           input.edges)
    /\ (result.kind = "view" /\ result.view_type = first.view_type)
          => result.view = first.view

\* The orientation of the first call is requested again, on the other
\* engine, after a call with another orientation.
C4_Witness ==
    /\ result.kind = "view"
    /\ first.kind = "view"
    /\ result.view_type = first.view_type
    /\ result.view_type = "top"
    /\ result.engine # first.engine
    /\ Len(result.view.edges) > 0
    /\ \A e \in Engines : engine[e].status = "ok"

\* The ends of an emitted edge, without direction.
Segment(edge) == {edge.start, edge.end}

\* The outline of the cube's FRONT view: the four sides of the square with
\* corners (0, 0) and (size, size), in ticks.
SquareOutline(size) ==
    LET s == size * Unit
    IN  { {<<0, 0>>, <<s, 0>>}, {<<s, 0>>, <<s, s>>},
          {<<s, s>>, <<0, s>>}, {<<0, s>>, <<0, 0>>} }

\* The two vertices differ in one coordinate only: a cube edge, not a
\* diagonal of a cube face.
AlongAxis(p, q) == Cardinality({c \in 1..3 : p[c] # q[c]}) = 1

\* C5: for the cube of create_cube (8 vertices, 12 outward-wound triangles)
\* with its edges from the feature-edge extraction, project_view(FRONT)
\* yields width = height = the edge length and exactly 4 edges that are
\* visible and silhouette, forming the square outline; no face diagonal
\* is among the emitted edges.
C5_CubeFrontView ==
    \A size \in CubeSizes :
        (input = Cube(size) /\ result.kind = "view"
            /\ result.view_type = "front") =>
            LET outline ==
                    SelectSeq(ResultView.edges,
                              LAMBDA edge : edge.is_visible /\ edge.is_silhouette)
            IN  /\ ResultView.width = size * Unit
                /\ ResultView.height = size * Unit
                /\ Len(outline) = 4
                /\ {Segment(outline[k]) : k \in 1..4} = SquareOutline(size)
                /\ \A k \in 1..Len(ResultView.edges) :
                      LET edge == ResultEngine.edges[ResultSources[k]]
                      IN  AlongAxis(ResultEngine.vertices[edge[1] + 1],
                                    ResultEngine.vertices[edge[2] + 1])

\* The FRONT view of the cube of edge length 10 has been returned.
C5_Witness ==
    /\ input = Cube(10)
    /\ result.kind = "view"
    /\ result.view_type = "front"
    /\ Len(result.view.edges) = 8

\* The end points of the emitted edges of a view.
EndPoints(view) ==
    {view.edges[k].start : k \in 1..Len(view.edges)}
        \cup {view.edges[k].end : k \in 1..Len(view.edges)}

C10_OutOfRangeRaises ==
    LET N == Len(input.vertices)
        out_of_range ==
            \E f \in 1..Len(input.faces) : \E j \in 1..3 :
                input.faces[f][j] < 0 \/ input.faces[f][j] > N - 1
    IN  out_of_range =>
            /\ \A e \in Engines : engine[e].status \in {"none", "IndexError"}
            /\ analyzer.status \in {"none", "IndexError"}


\* The faces adjacent to the source edge of emitted edge k, and which faces
\* are front-facing in the returned view.
AdjacentOf(k) ==
    AdjacentFaces(ResultEngine.faces, ResultEngine.edges[ResultSources[k]])
Visibility == face_visibility(ResultEngine, Rotation(result.view_type))

\* C16: project_view does not raise on an edge shared by more than two
\* faces, and the edge it emits for it is visible exactly when at least one
\* of the adjacent faces is front-facing in the view.
C16_NonManifoldEdgeInterior ==
    /\ (/\ result.kind # "none"
        /\ EdgesIndexable(ResultEngine.vertices, ResultEngine.edges))
          => result.kind = "view"
    /\ result.kind = "view" =>
          \A k \in 1..Len(ResultView.edges) :
              Cardinality(AdjacentOf(k)) > 2 =>
                  ResultView.edges[k].is_visible =
                      (\E f \in AdjacentOf(k) : Visibility[f + 1])

\* C19: in every orientation, an emitted edge with exactly two adjacent
\* faces is visible when one of the two is front-facing and a silhouette
\* when exactly one is, a face being front-facing when its rotated normal
\* has a positive dot product with (0, 0, 1).
C19_TwoFaceEdgeRule ==
    result.kind = "view" =>
        \A k \in 1..Len(ResultView.edges) :
            Cardinality(AdjacentOf(k)) = 2 =>
                \E A, B \in AdjacentOf(k) :
                    LET front(f) ==
                            Dot(MatVec(Rotation(result.view_type),
                                       ResultEngine.face_normals[f + 1]),
                                <<0, 0, 1>>) > 0
                    IN  /\ A # B
                        /\ ResultView.edges[k].is_visible
                              = (front(A) \/ front(B))
                        /\ ResultView.edges[k].is_silhouette
                              = (front(A) # front(B))

\* The input edges longer than 0.001 in the returned view, in input order.
LongInView ==
    LET ends == Ends(ResultEngine, result.view_type)
    IN  SelectSeq(Indices(Len(ends)), LAMBDA i :
            LengthExceeds(ends[i].u2 - ends[i].u1, ends[i].v2 - ends[i].v1,
                          LengthEps))

\* C20: the edges project_view emits are, in input order, one for each
\* input edge that is longer than 0.001 in the view and none for another:
\* an edge along the view direction is not emitted and no more edges are
\* emitted than were given.
C20_OneEdgePerLongInput ==
    result.kind = "view" =>
        LET ends == Ends(ResultEngine, result.view_type)
        IN  /\ Len(ResultView.edges) = Len(LongInView)
            /\ Len(ResultView.edges) <= Len(ResultEngine.edges)
            /\ \A k \in 1..Len(ResultView.edges) :
                  LET i == LongInView[k]
                  IN  /\ ResultView.edges[k].start = <<ends[i].u1, ends[i].v1>>
                      /\ ResultView.edges[k].end = <<ends[i].u2, ends[i].v2>>
                      /\ <<ends[i].u1, ends[i].v1>> # <<ends[i].u2, ends[i].v2>>

\* A view that emits the first two of three edges and not the third, which
\* runs along the view direction.
C20_Witness ==
    /\ result.kind = "view"
    /\ Len(ResultEngine.edges) = 3
    /\ Len(ResultView.edges) = 2
    /\ LongInView = <<1, 2>>

\* The three sides of a face, as the pairs of vertices it gives.
SidesOf(face) == { <<face[1], face[2]>>, <<face[2], face[3]>>,
                   <<face[3], face[1]>> }

\* What C22 says of an edge -> faces index built from `faces`.
WellFormedIndex(index, faces) ==
    /\ \A i \in 1..Len(index) : index[i].key[1] <= index[i].key[2]
    /\ \A i, j \in 1..Len(index) : index[i].key = index[j].key => i = j
    /\ \A f \in 1..Len(faces) : \A side \in SidesOf(faces[f]) :
          \E i \in 1..Len(index) :
              /\ index[i].key = << Min2(side[1], side[2]),
                                   Max2(side[1], side[2]) >>
              /\ f - 1 \in Range(index[i].faces)
    /\ \A i \in 1..Len(index) : \A f \in Range(index[i].faces) :
          /\ f \in 0..(Len(faces) - 1)
          /\ \E side \in SidesOf(faces[f + 1]) :
                {side[1], side[2]} = {index[i].key[1], index[i].key[2]}
    /\ SumSeq([i \in 1..Len(index) |-> Len(index[i].faces)]) = 3 * Len(faces)

\* C22: the edge -> faces index of a constructed engine or analyzer has
\* sorted keys, lists every face under each of its three sides and under no
\* other edge, 3 x the number of faces entries in all, and is the same in
\* ProjectionEngine, GeometryAnalyzer and STLLoader for the same faces.
C22_EdgeIndexWellFormed ==
    /\ \A e \in Engines :
          engine[e].status = "ok" =>
              /\ WellFormedIndex(engine[e].edge_to_faces, input.faces)
              /\ engine[e].edge_to_faces = _build_edge_face_map(input.faces)
    /\ analyzer.status = "ok" =>
          /\ WellFormedIndex(analyzer.edge_to_faces, input.faces)
          /\ analyzer.edge_to_faces = _build_edge_face_map(input.faces)
          /\ \A e \in Engines :
                engine[e].status = "ok" =>
                    engine[e].edge_to_faces = analyzer.edge_to_faces

\* An engine and an analyzer stand built on the twelve faces of a cube, with
\* eighteen edges in the index.
C22_Witness ==
    /\ engine[1].status = "ok"
    /\ analyzer.status = "ok"
    /\ Len(input.faces) = 12
    /\ Len(engine[1].edge_to_faces) = 18
    /\ \E i \in 1..18 : Len(analyzer.edge_to_faces[i].faces) = 2

\* Face f (0-based) of the engine has no area: its vertices are collinear
\* or repeated.
ZeroArea(eng, f) ==
    LET face == eng.faces[f + 1]
        v0 == At(eng.vertices, face[1])
        v1 == At(eng.vertices, face[2])
        v2 == At(eng.vertices, face[3])
    IN  Cross(Vec(v0, v1), Vec(v0, v2)) = <<0, 0, 0>>

\* C23: a face without area does not keep an engine or an analyzer from
\* being built and has the zero vector as its normal; it is front-facing in
\* no view, and an emitted edge between such a face and a front-facing face
\* is visible and a silhouette edge.
C23_ZeroAreaFace ==
    /\ \A e \in Engines : \A f \in 0..(Len(input.faces) - 1) :
          (engine[e].status = "ok" /\ ZeroArea(engine[e], f)) =>
              engine[e].face_normals[f + 1] = <<0, 0, 0>>
    /\ \A f \in 0..(Len(input.faces) - 1) :
          (analyzer.status = "ok" /\ ZeroArea(analyzer, f)) =>
              analyzer.face_normals[f + 1] = <<0, 0, 0>>
    /\ FacesIndexable(input.vertices, input.faces) =>
          \A e \in Engines : engine[e].status \in {"none", "ok"}
    /\ result.kind = "view" =>
          /\ \A f \in 0..(Len(ResultEngine.faces) - 1) :
                ZeroArea(ResultEngine, f) => ~Visibility[f + 1]
          /\ \A k \in 1..Len(ResultView.edges) :
                (\E Z, A \in AdjacentOf(k) :
                    /\ AdjacentOf(k) = {Z, A}
                    /\ ZeroArea(ResultEngine, Z)
                    /\ Visibility[A + 1])
                  => /\ ResultView.edges[k].is_visible
                     /\ ResultView.edges[k].is_silhouette

\* The component of a normal that decides in a view, and the view from
\* the other side.
TowardsViewer(view_type, n) ==
    CASE view_type = "front" -> n[3] > 0
      [] view_type = "back" -> n[3] < 0
      [] view_type = "top" -> n[2] > 0
      [] view_type = "bottom" -> n[2] < 0
      [] view_type = "right" -> n[1] > 0
      [] view_type = "left" -> n[1] < 0
Opposite(view_type) ==
    CASE view_type = "front" -> "back"
      [] view_type = "back" -> "front"
      [] view_type = "top" -> "bottom"
      [] view_type = "bottom" -> "top"
      [] view_type = "right" -> "left"
      [] view_type = "left" -> "right"

\* C27: in an orthographic view a face with a non-zero normal n is
\* front-facing exactly if n_z > 0 (front), n_z < 0 (back), n_y > 0 (top),
\* n_y < 0 (bottom), n_x > 0 (right), n_x < 0 (left); an emitted edge of
\* one such face alone is visible exactly then; and no face is
\* front-facing in a view and in the view from the other side.
C27_FrontFacingByAxis ==
    (result.kind = "view" /\ result.view_type \in OrthoViews) =>
        LET faces == 0..(Len(ResultEngine.faces) - 1)
            normal(f) == ResultEngine.face_normals[f + 1]
            other == face_visibility(ResultEngine,
                                     Rotation(Opposite(result.view_type)))
        IN  /\ \A f \in faces :
                  normal(f) # <<0, 0, 0>> =>
                      Visibility[f + 1]
                          = TowardsViewer(result.view_type, normal(f))
            /\ \A k \in 1..Len(ResultView.edges) : \A f \in faces :
                  (AdjacentOf(k) = {f} /\ normal(f) # <<0, 0, 0>>) =>
                      ResultView.edges[k].is_visible
                          = TowardsViewer(result.view_type, normal(f))
            /\ \A f \in faces : ~(Visibility[f + 1] /\ other[f + 1])

\* A view from the left was made of a mesh with a face that faces it, a
\* face that faces away and a face seen edge-on.
C27_Witness ==
    /\ result.kind = "view"
    /\ result.view_type = "left"
    /\ \E f, g, h \in 1..Len(ResultEngine.faces) :
          /\ ResultEngine.face_normals[f][1] < 0
          /\ Visibility[f]
          /\ ResultEngine.face_normals[g][1] > 0
          /\ ~Visibility[g]
          /\ ResultEngine.face_normals[h][1] = 0
          /\ ResultEngine.face_normals[h] # <<0, 0, 0>>
          /\ ~Visibility[h]

-----------------------------------------------------------------------------
(* Properties of the edge chains and the circles *)

\* The two ends of an edge, whichever way round it is given.
EndsOf(e) == {e.start, e.end}

\* The places <<c, k>> of the returned chains.
Places(chains) ==
    UNION {{<<c, k>> : k \in 1..Len(chains[c])} : c \in 1..Len(chains)}

\* C24: every chain _find_edge_chains returns has three edges or more; no
\* input edge is in the chains more often than it is in the input; each
\* edge of a chain starts within the tolerance of the end of the edge
\* before it; and each edge of a chain is an input edge as given or, when
\* only its far end met the chain, with its start and end swapped.
C24_ChainsWellFormed ==
    detection.status # "none" =>
        LET chains == detection.edge_chains
            edges == detection.edges
        IN  /\ \A c \in 1..Len(chains) : Len(chains[c]) >= 3
            /\ \A j \in 1..Len(edges) :
                  Cardinality({p \in Places(chains) :
                                  EndsOf(chains[p[1]][p[2]])
                                      = EndsOf(edges[j])})
                    <= Cardinality({i \in 1..Len(edges) :
                                      EndsOf(edges[i]) = EndsOf(edges[j])})
            /\ \A p \in Places(chains) :
                  LET edge == chains[p[1]][p[2]]
                  IN  /\ \E j \in 1..Len(edges) :
                            \/ edge = edges[j]
                            \/ edge = DetectorEdge(edges[j].end,
                                                   edges[j].start,
                                                   edges[j].is_visible, FALSE)
                      /\ p[2] > 1 =>
                            LET before == chains[p[1]][p[2] - 1]
                            IN  /\ Connects(edge.start, before.end)
                                /\ \A j \in 1..Len(edges) :
                                      (/\ EndsOf(edges[j]) = EndsOf(edge)
                                       /\ ~Connects(edges[j].start, before.end))
                                        => /\ edge.start = edges[j].end
                                           /\ edge.end = edges[j].start

\* A chain holds an input edge with its ends swapped.
C24_Witness ==
    /\ detection.status = "returned"
    /\ \E p \in Places(detection.edge_chains) :
          \E j \in 1..Len(detection.edges) :
             LET edge == detection.edge_chains[p[1]][p[2]]
             IN  /\ edge.start = detection.edges[j].end
                 /\ edge.end = detection.edges[j].start
                 /\ edge # detection.edges[j]
                 /\ p[2] > 1

\* C25: every circle _detect_circles returns comes from a chain of eight
\* segments or more whose fit returned with residuals inside the
\* tolerance; a chain of three to seven edges gives no circle; no chain
\* gives two circles, so there are at most as many circles as chains of
\* eight or more; and a circle is visible exactly if the first edge of its
\* chain is.
C25_CirclesFromLongChains ==
    detection.status # "none" =>
        LET chains == detection.edge_chains
            circles == detection.circles
            long == {k \in 1..Len(chains) : Len(chains[k]) >= 8}
        IN  /\ \A i \in 1..Len(circles) :
                  LET k == circles[i].chain
                  IN  /\ k \in long
                      /\ k <= Len(detection.library)
                      /\ detection.library[k].kind = "returns"
                      /\ ResidualsWithinTolerance(ChainPoints(chains[k]),
                                                  detection.library[k].x)
                      /\ circles[i].circle.kind = "Circle2D"
                      /\ circles[i].circle.is_visible
                            = chains[k][1].is_visible
            /\ \A i, j \in 1..Len(circles) :
                  i < j => circles[i].chain < circles[j].chain
            /\ Len(circles) <= Cardinality(long)

\* A circle was returned for an outline whose first edge is hidden and
\* whose other edges are not.
C25_Witness ==
    /\ detection.status = "returned"
    /\ Len(detection.circles) = 1
    /\ ~detection.circles[1].circle.is_visible
    /\ detection.edge_chains[1][2].is_visible

\* The detection of a seven-edge arc returned no circle.
ArcGivesNoCircle ==
    /\ detection.status = "returned"
    /\ Len(detection.edge_chains) = 1
    /\ Len(detection.edge_chains[1]) = 7
    /\ detection.circles = <<>>

\* The points that edges lead to from the points given.
RECURSIVE ReachedFrom(_, _)
ReachedFrom(edges, points) ==
    LET more == points \cup
                UNION {EndsOf(edges[j]) : j \in {i \in 1..Len(edges) :
                                            EndsOf(edges[i]) \cap points # {}}}
    IN  IF more = points THEN points ELSE ReachedFrom(edges, more)

\* The edges are the segments of one simple open polyline, in any order
\* and each either way round: they hang together, no point is on more
\* than two of them, and exactly two points are on one only.
OpenPolyline(edges) ==
    LET points == UNION {EndsOf(edges[j]) : j \in 1..Len(edges)}
        at(p) == {j \in 1..Len(edges) : p \in EndsOf(edges[j])}
    IN  /\ Len(edges) >= 1
        /\ \A j \in 1..Len(edges) : edges[j].start # edges[j].end
        /\ \A i, j \in 1..Len(edges) :
              i # j => EndsOf(edges[i]) # EndsOf(edges[j])
        /\ \A p \in points : Cardinality(at(p)) <= 2
        /\ Cardinality({p \in points : Cardinality(at(p)) = 1}) = 2
        /\ ReachedFrom(edges, {edges[1].start}) = points

PolylineInOrderFound ==
    /\ detection.status = "returned"
    /\ OpenPolyline(detection.edges)
    /\ Len(detection.edge_chains) = 1
    /\ \E j \in 1..Len(detection.edges) :
          detection.edge_chains[1][j] # detection.edges[j]

=============================================================================
